---------------------------- MODULE Spec2Model ----------------------------
(***************************************************************************)
(* A model of the ad matching pipeline of the ad_service package:          *)
(*   - AdMatcher (ad_matching/ad_matcher.py): relevance scoring, the       *)
(*     threshold, per-conversation frequency capping, sort and truncate;   *)
(*   - ConfigDrivenAdManager (ad_delivery/config_driven_ad_manager.py):    *)
(*     the keyword/category index, the lookups, the conversation context,  *)
(*     the relevance scores and the best ad;                               *)
(*   - AdDeliveryManager (ad_delivery/ad_delivery_manager.py): query       *)
(*     expansion, the four sub-scores, the boosts and the best match;      *)
(*   - QueryAnalyzer (ad_matching/query_analyzer.py): the annotation of a  *)
(*     conversation from the answer of the extraction call;                *)
(*   - RankingEngine (ad_matching/ranking_engine.py): the business         *)
(*     factors, the final score and the ranked list.                       *)
(*                                                                         *)
(* The objects share no state.  A behaviour exercises one of them, named   *)
(* by component; the variables of the others stay idle.                    *)
(*                                                                         *)
(* Text is modelled by TLA+ strings (Len, SubSeq and \o work on them).     *)
(* A float score x is the integer x * Unit, quotients rounded down.        *)
(***************************************************************************)
EXTENDS Integers, Sequences, FiniteSets, TLC

VARIABLES
    component,                \* the object the behaviour exercises
    \* ---- AdMatcher ----
    repo,                     \* AdRepository.ads, in insertion order
    relevance_threshold,      \* AdMatcher.relevance_threshold (in Units)
    max_ads_per_request,      \* AdMatcher.max_ads_per_request
    conversation_ad_history,  \* AdMatcher.conversation_ad_history
    sessions,                 \* the chat sessions calling match_ads: their message lists
    call,                     \* the last match_ads call: its input and what it returned
    returned,                 \* per session, the ad ids its latest match_ads call returned
    ncalls,                   \* number of match_ads calls made so far
    \* ---- QueryAnalyzer ----
    analyzed,                 \* the last analyze_conversation call: its input and result
    nanalyses,                \* number of analyze_conversation calls made so far
    \* ---- RankingEngine ----
    ranking,                  \* the last rank_ads call: its input and what it returned
    nrankings,                \* number of rank_ads calls made so far
    \* ---- ConfigDrivenAdManager ----
    ads,                      \* self.ads.values(), in insertion order
    keyword_index,            \* self.keyword_index
    category_index,           \* self.category_index
    default_relevance_threshold, \* self.system_config['default_relevance_threshold']
    conversation_contexts,    \* self.conversation_contexts
    chats,                    \* the chats calling get_relevant_ad: their message lists
    lookup,                   \* the last get_relevant_ad call: its input and results
    nqueries,                 \* number of get_relevant_ad calls made so far
    companies_dir,            \* the companies directory, as last read by reload_config
    reload,                   \* the statement a running reload_config is at
    nreloads,                 \* number of reload_config calls made so far
    nbuilds,                  \* number of separate _build_indexes calls made so far
    updaters,                 \* the threads in _update_conversation_context
    base_contexts,            \* conversation_contexts when the threads entered
    nrounds,                  \* number of times two threads entered together
    last_update,              \* the last separate _update_conversation_context call
    nupdates,                 \* number of separate _update_conversation_context calls
    \* ---- AdDeliveryManager ----
    delivery_ads,             \* self.ads
    delivery_history,         \* self.conversation_history
    delivery_chats,           \* the chats calling get_relevant_ad: their message lists
    request,                  \* the last get_relevant_ad call: its input and outcome
    nrequests,                \* number of get_relevant_ad calls made so far
    \* MetricsCollector
    metrics_collector_instance, \* _metrics_collector_instance: "None" or the instance
    needs_init,               \* the instance's _needs_init
    registry,                 \* whether the instance has a registry attribute
    instance_lock,            \* _instance_lock: the thread holding it, or "free"
    constructing,             \* where each thread is in MetricsCollector()
    initialisations           \* how often each part of the __init__ body has run

matcherVars == <<repo, relevance_threshold, max_ads_per_request,
                 conversation_ad_history, sessions, call, returned, ncalls>>

analyzerVars == <<analyzed, nanalyses>>

rankingVars == <<ranking, nrankings>>

configVars == <<ads, keyword_index, category_index, default_relevance_threshold,
                conversation_contexts, chats, lookup, nqueries>>

reloadVars == <<companies_dir, reload, nreloads, nbuilds>>

updaterVars == <<updaters, base_contexts, nrounds>>

contextVars == <<last_update, nupdates>>

deliveryVars == <<delivery_ads, delivery_history, delivery_chats, request, nrequests>>

metricsVars == <<metrics_collector_instance, needs_init, registry, instance_lock,
                 constructing, initialisations>>

vars == <<component, matcherVars, analyzerVars, rankingVars, configVars, reloadVars, updaterVars, contextVars, deliveryVars, metricsVars>>

-----------------------------------------------------------------------------
(* Bounds of the model *)

\* AdMatcher.match_ads calls in one behaviour
MaxCalls == 4

\* ConfigDrivenAdManager.get_relevant_ad calls in one behaviour
MaxQueries == 3

\* AdDeliveryManager.get_relevant_ad calls in one behaviour
MaxRequests == 3

\* ConfigDrivenAdManager.reload_config calls in one behaviour
MaxReloads == 2

\* separate ConfigDrivenAdManager._build_indexes calls in one behaviour
MaxBuilds == 2

\* pairs of concurrent _update_conversation_context calls in one behaviour
MaxRounds == 2

\* QueryAnalyzer.analyze_conversation calls in one behaviour
MaxAnalyses == 2

\* RankingEngine.rank_ads calls in one behaviour
MaxRankings == 2

\* separate ConfigDrivenAdManager._update_conversation_context calls in one
\* behaviour: enough to fill last_queries (5) and topic_history (10)
MaxUpdates == 11

-----------------------------------------------------------------------------
(* Fixed-point arithmetic: a score s in [0,1] is the integer s * Unit.      *)
(* Unit is divisible by 1..10 and by 100, so the quotients the scorers      *)
(* take (matches / 1..10, weights in hundredths, x1.5, x1.2) are exact.     *)

Unit == 2520 * 100

Min(a, b) == IF a <= b THEN a ELSE b
Max(a, b) == IF a >= b THEN a ELSE b

\* x * (num/den)
Frac(x, num, den) == (x * num) \div den

-----------------------------------------------------------------------------
(* Python str and list helpers *)

UpperAlpha == "ABCDEFGHIJKLMNOPQRSTUVWXYZ"
LowerAlpha == "abcdefghijklmnopqrstuvwxyz"
Digits == "0123456789"

CharsOf(s) == {SubSeq(s, i, i) : i \in 1..Len(s)}

UpperChars == CharsOf(UpperAlpha)
LowerChars == CharsOf(LowerAlpha)
DigitChars == CharsOf(Digits)

ToLowerChar ==
    [c \in UpperChars |->
        LET i == CHOOSE k \in 1..26 : SubSeq(UpperAlpha, k, k) = c
        IN  SubSeq(LowerAlpha, i, i)]

\* str.lower()
RECURSIVE LowerFrom(_, _)
LowerFrom(s, i) ==
    IF i > Len(s) THEN ""
    ELSE LET c == SubSeq(s, i, i)
         IN  (IF c \in UpperChars THEN ToLowerChar[c] ELSE c) \o LowerFrom(s, i + 1)

\* The strings the model's inventories, messages and extractions are made of
Vocabulary ==
    {"laptop", "TV", "tv", "television", "Electronics", "electronics", "cheap",
     "books", "reading", "e-reader", "kindle", "Amazon", "Cheapest TV",
     "hello", "any",
     "Laptop", "gaming laptop", "smart tv", "computers", "gaming", "Dell", "dell",
     "I want to buy a smart tv", "i want to buy a smart tv",
     "best electronics deal", "Best laptop", "best laptop", "running shoes",
     "sneakers", "macbook", "sports", "technology", "nike", "bathroom", "faucet",
     "shower", "toilet", "kitchen", "sink", "appliance",
     "gaming laptop computer phone software", "tv computers"}

\* str.lower() of the vocabulary, evaluated once (@@ makes the function an
\* explicit table)
LowerOfVocabulary == [s \in Vocabulary |-> LowerFrom(s, 1)] @@ <<>>

Lower(s) == IF s \in Vocabulary THEN LowerOfVocabulary[s] ELSE LowerFrom(s, 1)

\* needle in hay (substring test on str)
Contains(hay, needle) ==
    \/ Len(needle) = 0
    \/ \E i \in 1..(Len(hay) - Len(needle) + 1) :
          SubSeq(hay, i, i + Len(needle) - 1) = needle

\* s[:n]
Prefix(s, n) == SubSeq(s, 1, Min(n, Len(s)))

\* seq[-n:]
LastN(seq, n) == SubSeq(seq, Max(1, Len(seq) - n + 1), Len(seq))

\* the elements of a list, as a set
Range(seq) == {seq[i] : i \in 1..Len(seq)}

\* sum(1 for x in seq if x in set)
CountIn(seq, set) == Cardinality({i \in 1..Len(seq) : seq[i] \in set})

\* [f(x) for x in seq] with f = str.lower
LowerAll(seq) == [i \in 1..Len(seq) |-> Lower(seq[i])]

WordChars == UpperChars \cup LowerChars \cup DigitChars \cup {"_"}
AlnumChars == UpperChars \cup LowerChars \cup DigitChars
AlphaChars == UpperChars \cup LowerChars

\* the maximal runs of \w characters of s[i..], left to right; a run that began
\* at start (0 when none has) is still open
RECURSIVE WordRuns(_, _, _)
WordRuns(s, i, start) ==
    IF i > Len(s) THEN (IF start = 0 THEN <<>> ELSE <<SubSeq(s, start, Len(s))>>)
    ELSE IF SubSeq(s, i, i) \in WordChars
         THEN WordRuns(s, i + 1, IF start = 0 THEN i ELSE start)
         ELSE (IF start = 0 THEN <<>> ELSE <<SubSeq(s, start, i - 1)>>)
              \o WordRuns(s, i + 1, 0)

\* re.findall(r'\b\w+\b', s)
FindWords(s) == WordRuns(s, 1, 0)

\* the maximal runs of non-blank characters of s[i..]
RECURSIVE SplitRuns(_, _, _)
SplitRuns(s, i, start) ==
    IF i > Len(s) THEN (IF start = 0 THEN <<>> ELSE <<SubSeq(s, start, Len(s))>>)
    ELSE IF SubSeq(s, i, i) # " "
         THEN SplitRuns(s, i + 1, IF start = 0 THEN i ELSE start)
         ELSE (IF start = 0 THEN <<>> ELSE <<SubSeq(s, start, i - 1)>>)
              \o SplitRuns(s, i + 1, 0)

\* str.split()
Split(s) == SplitRuns(s, 1, 0)


-----------------------------------------------------------------------------
(* AdRepository: the inventory AdMatcher reads *)

\* An ad added with an "id" (AdRepository.add_ad, update_ad)
AdLaptop ==
    [id |-> "ad_laptop", title |-> "UltraBook Laptop",
     keywords |-> <<"laptop">>, categories |-> <<"Electronics">>,
     negative_keywords |-> <<>>, status |-> "active"]

AdTV ==
    [id |-> "ad_tv", title |-> "Smart TV Sale",
     keywords |-> <<"TV", "television">>, categories |-> <<"electronics">>,
     negative_keywords |-> <<"cheap">>, status |-> "active"]

\* The built-in catalog entry: it has neither "id" nor "ad_id"
AdKindle ==
    [title |-> "Amazon Kindle - Perfect for Book Lovers",
     keywords |-> <<"books", "reading", "e-reader", "kindle", "Amazon">>,
     categories |-> <<"electronics", "reading", "books">>,
     negative_keywords |-> <<>>, status |-> "active"]

AdPaused ==
    [id |-> "ad_old", title |-> "Old Laptop Offer",
     keywords |-> <<"laptop">>, categories |-> <<"electronics">>,
     negative_keywords |-> <<>>, status |-> "paused"]

\* The inventories a behaviour may start from
Repos ==
    { <<AdTV, AdLaptop, AdPaused>>,
      <<AdLaptop, AdTV, AdKindle>> }

AdIds == {"ad_laptop", "ad_tv", "ad_old"}

\* AdRepository.get_active_ads
get_active_ads(ads_) == SelectSeq(ads_, LAMBDA ad : ad.status = "active")

-----------------------------------------------------------------------------
(* QueryAnalyzer.analyze_conversation *)

\* What the external extraction call can do: answer (kind "ok"), or fail inside
\* _extract_data_with_openai so that the defaults are returned (kind "failed")
Extractions ==
    { [kind |-> "ok", keywords |-> <<"laptop", "TV">>, entities |-> <<>>,
       topics |-> <<"electronics">>],
      [kind |-> "ok", keywords |-> <<"tv">>, entities |-> <<"Cheapest TV">>,
       topics |-> <<"Electronics">>],
      [kind |-> "ok", keywords |-> <<"kindle", "laptop">>, entities |-> <<"Amazon">>,
       topics |-> <<"books", "reading", "electronics">>],
      [kind |-> "failed", keywords |-> <<>>, entities |-> <<>>, topics |-> <<>>] }

ContextStopwords ==
    {"the", "and", "for", "with", "that", "have", "this", "from", "they", "would", "what"}

\* A maximal \w run matches \b[A-Za-z][A-Za-z0-9]{2,}\b iff it starts with a
\* letter, is alphanumeric throughout and has at least 3 characters.
IsContextWord(w) ==
    /\ Len(w) >= 3
    /\ SubSeq(w, 1, 1) \in AlphaChars
    /\ \A i \in 1..Len(w) : SubSeq(w, i, i) \in AlnumChars

HasContent(msg) == "content" \in DOMAIN msg /\ msg.content # ""

RECURSIVE JoinContents(_, _)
JoinContents(msgs, i) ==
    IF i > Len(msgs) THEN ""
    ELSE LET rest == JoinContents(msgs, i + 1)
         IN  IF HasContent(msgs[i])
             THEN (IF rest = "" THEN msgs[i].content ELSE msgs[i].content \o " " \o rest)
             ELSE rest

\* QueryAnalyzer._extract_context_keywords: the set of lists it can return
\* (list(set(keywords))[:10] keeps any 10 of the unique keywords)
extract_context_keywords(conversation_history) ==
    LET text == JoinContents(LastN(conversation_history, 5), 1)
        words == SelectSeq(FindWords(text), IsContextWord)
        unique == {Lower(words[i]) : i \in 1..Len(words)} \ ContextStopwords
    IN  IF Cardinality(unique) <= 10 THEN {unique}
        ELSE {S \in SUBSET unique : Cardinality(S) = 10}

EmptyAnalysis == [tokens |-> {}, entities |-> <<>>, topics |-> <<>>]

\* analyze_conversation given the extraction's outcome x and the context keywords ck
analyze_conversation(conversation_history, x, ck) ==
    IF Len(conversation_history) = 0 THEN EmptyAnalysis
    ELSE [tokens |-> Range(x.keywords) \cup ck,      \* list(set(keywords + context_keywords))
          entities |-> x.entities,
          topics |-> x.topics]

-----------------------------------------------------------------------------
(* AdMatcher *)

\* max_impressions in _allow_ad_impression
max_impressions == 3

\* first_msg = conversation_history[0]['content'][:50]
ConvPrefixLen == 50

\* AdMatcher._get_conversation_id: the id (str(hash(first_msg)) is one value per first_msg)
get_conversation_id(conversation_history) ==
    IF Len(conversation_history) > 0 /\ "content" \in DOMAIN conversation_history[1]
    THEN "conv:" \o Prefix(conversation_history[1].content, ConvPrefixLen)
    ELSE "unknown_conversation"

\* AdMatcher._get_conversation_id: the history map after the call
track_conversation(hist, conversation_history) ==
    LET cid == get_conversation_id(conversation_history)
    IN  IF cid # "unknown_conversation" /\ cid \notin DOMAIN hist
        THEN [c \in DOMAIN hist \cup {cid} |->
                 IF c = cid
                 THEN [last_message_count |-> Len(conversation_history),
                       shown_ads |-> [a \in {} |-> 0]]
                 ELSE hist[c]]
        ELSE hist

\* history["shown_ads"].get(ad_id, 0)
ShownCount(hist, cid, ad_id) ==
    IF cid \in DOMAIN hist /\ ad_id \in DOMAIN hist[cid].shown_ads
    THEN hist[cid].shown_ads[ad_id] ELSE 0

\* LastShown of a history that never remembers the ad
LastShownMutant(hist, cid) == "None"

\* history.get("last_shown_ad")
LastShown(hist, cid) ==
    IF cid \in DOMAIN hist /\ "last_shown_ad" \in DOMAIN hist[cid]
    THEN hist[cid].last_shown_ad ELSE "None"

\* UnderCap with the cap one impression later
UnderCapMutant(shown_count, last_shown_ad, ad_id) ==
    shown_count <= max_impressions /\ last_shown_ad # ad_id

\* the condition under which _allow_ad_impression counts and allows
UnderCap(shown_count, last_shown_ad, ad_id) ==
    shown_count < max_impressions /\ last_shown_ad # ad_id

\* AdMatcher._allow_ad_impression: its answer and the history map after it
allow_ad_impression(hist, cid, ad_id) ==
    IF cid \notin DOMAIN hist THEN [allowed |-> TRUE, history |-> hist]
    ELSE LET shown_count == ShownCount(hist, cid, ad_id)
             last_shown_ad == LastShown(hist, cid)
         IN  IF UnderCap(shown_count, last_shown_ad, ad_id)
             THEN [allowed |-> TRUE,
                   history |->
                     [hist EXCEPT ![cid] =
                        [last_message_count |-> hist[cid].last_message_count,
                         shown_ads |->
                           [a \in DOMAIN hist[cid].shown_ads \cup {ad_id} |->
                              IF a = ad_id THEN shown_count + 1
                              ELSE hist[cid].shown_ads[a]],
                         last_shown_ad |-> ad_id]]]
             ELSE [allowed |-> FALSE, history |-> hist]


\* keyword_weight, category_weight, semantic_weight of _calculate_relevance, in hundredths
keyword_weight == 40
category_weight == 30
semantic_weight == 30

\* self.context_window_size
context_window_size == 10

\* ad.get("negative_keywords", [])
NegativeKeywords(ad) ==
    IF "negative_keywords" \in DOMAIN ad THEN ad.negative_keywords ELSE <<>>

\* the multiplier of _calculate_relevance: 0 when a negative keyword is contained in
\* a lower-cased token or entity, else 1
negative_keyword_score(ad, analysis) ==
    LET relevant_terms == analysis.tokens \cup Range(analysis.entities)
    IN  IF \E k \in 1..Len(NegativeKeywords(ad)) :
              \E term \in relevant_terms : Contains(Lower(term), NegativeKeywords(ad)[k])
        THEN 0 ELSE 1

\* AdMatcher._calculate_relevance, lines 149-161: the keyword and category scores
keyword_score_of(ad, analysis) ==
    LET ad_keywords == Range(LowerAll(ad.keywords))
        token_matches == Cardinality({t \in analysis.tokens : Lower(t) \in ad_keywords})
        entity_matches == CountIn(LowerAll(analysis.entities), ad_keywords)
        total_matches == token_matches + entity_matches
        max_keywords == Max(1, Min(Len(ad.keywords), 10))
    IN  Min(Unit, (total_matches * Unit) \div max_keywords)

category_score_of(ad, analysis) ==
    LET ad_categories == Range(LowerAll(ad.categories))
        category_matches == CountIn(LowerAll(analysis.topics), ad_categories)
        max_categories == Max(1, Min(Len(ad.categories), 5))
    IN  Min(Unit, (category_matches * Unit) \div max_categories)

\* analysis.get("semantic_score", {}).get(ad_id, 0.0): analyze_conversation
\* always returns an empty semantic_score map
semantic_score_of(ad, analysis) == 0

\* AdMatcher._calculate_relevance
calculate_relevance(ad, analysis) ==
    ( ( keyword_weight * keyword_score_of(ad, analysis)
      + category_weight * category_score_of(ad, analysis)
      + semantic_weight * semantic_score_of(ad, analysis) ) \div 100 )
    * negative_keyword_score(ad, analysis)

\* list.sort(key = relevance_score, reverse = True): a stable sort, equal scores keep
\* their order; written as an insertion sort
RECURSIVE InsertDesc(_, _)
InsertDesc(sorted, e) ==
    IF sorted = <<>> THEN <<e>>
    ELSE IF Head(sorted).relevance_score >= e.relevance_score
         THEN <<Head(sorted)>> \o InsertDesc(Tail(sorted), e)
         ELSE <<e>> \o sorted

RECURSIVE SortDesc(_)
SortDesc(seq) ==
    IF seq = <<>> THEN <<>>
    ELSE InsertDesc(SortDesc(SubSeq(seq, 1, Len(seq) - 1)), seq[Len(seq)])

\* Truncate keeping the last n entries instead of the first n
TruncateMutant(seq, n) == SubSeq(seq, Max(1, Len(seq) - n + 1), Len(seq))

\* matched_ads[:self.max_ads_per_request]
Truncate(seq, n) == SubSeq(seq, 1, Min(n, Len(seq)))

\* the condition of line 105
MeetsThreshold(score, threshold) == score >= threshold

\* The loop of match_ads over active_ads[i..], lines 101-112: the history map,
\* the matched list and the ads that met the threshold when it ends, and whether
\* it ended by an exception (ad["id"] of an ad that has no "id")
RECURSIVE match_loop(_, _, _, _, _, _, _)
match_loop(active_ads, i, cid, analysis, hist, matched, qualified) ==
    IF i > Len(active_ads)
    THEN [history |-> hist, matched |-> matched, qualified |-> qualified, raised |-> FALSE]
    ELSE LET ad == active_ads[i]
             relevance_score == calculate_relevance(ad, analysis)
         IN  IF MeetsThreshold(relevance_score, relevance_threshold)
             THEN IF "id" \notin DOMAIN ad
                  THEN [history |-> hist, matched |-> matched,
                        qualified |-> qualified, raised |-> TRUE]
                  ELSE LET r == allow_ad_impression(hist, cid, ad.id)
                       IN  match_loop(active_ads, i + 1, cid, analysis, r.history,
                                      IF r.allowed
                                      THEN Append(matched, [id |-> ad.id,
                                                            relevance_score |-> relevance_score])
                                      ELSE matched,
                                      qualified \cup {ad.id})
             ELSE match_loop(active_ads, i + 1, cid, analysis, hist, matched, qualified)

\* AdMatcher.match_ads(conversation_history), with the extraction's outcome x and the
\* context keywords ck: the history map after it and what it returns
match_ads(conversation_history, x, ck) ==
    LET cid == get_conversation_id(conversation_history)
        hist0 == track_conversation(conversation_ad_history, conversation_history)
        recent_messages == LastN(conversation_history, context_window_size)
        analysis == analyze_conversation(recent_messages, x, ck)
        active_ads == get_active_ads(repo)
    IN  IF Len(active_ads) = 0
        THEN [history |-> hist0, conv_id |-> cid, qualified |-> {}, passed |-> <<>>,
              ret |-> <<>>, raised |-> FALSE, analysis |-> analysis]
        ELSE LET r == match_loop(active_ads, 1, cid, analysis, hist0, <<>>, {})
             IN  [history |-> r.history, conv_id |-> cid, qualified |-> r.qualified,
                  passed |-> r.matched,
                  ret |-> IF r.raised THEN <<>>
                          ELSE Truncate(SortDesc(r.matched), max_ads_per_request),
                  raised |-> r.raised, analysis |-> analysis]

-----------------------------------------------------------------------------
(* The chat sessions that call AdMatcher.match_ads *)

Sessions == {"s1", "s2"}

\* What a user can type
Messages ==
    { [role |-> "user", content |-> "hello"],
      [role |-> "user", content |-> "any cheap TV?"] }

\* The configurations AdMatcher can be constructed with: relevance_threshold
\* (in hundredths) and max_ads_per_request
Thresholds == {0, 30}
MaxAds == {1, 2}

NoCall ==
    [session |-> "none", conv_id |-> "none", qualified |-> {}, passed |-> <<>>,
     ret |-> <<>>, raised |-> FALSE, before |-> <<>>, analysis |-> EmptyAnalysis]

IdleMatcher ==
    /\ repo = <<>>
    /\ relevance_threshold = 0
    /\ max_ads_per_request = 0
    /\ conversation_ad_history = <<>>
    /\ sessions = <<>>
    /\ call = NoCall
    /\ returned = <<>>
    /\ ncalls = 0

InitMatcher ==
    /\ repo \in Repos
    /\ relevance_threshold \in {(t * Unit) \div 100 : t \in Thresholds}
    /\ max_ads_per_request \in MaxAds
    /\ conversation_ad_history = [c \in {} |-> 0]
    /\ sessions = [s \in Sessions |-> <<>>]
    /\ call = NoCall
    /\ returned = [s \in Sessions |-> {}]
    /\ ncalls = 0

\* A user of session s sends msg; the chat appends it to the session's message
\* list and calls match_ads with the list (gui/chat_interface.py, lines 100-107)
MatchAds(s, msg) ==
    /\ component = "AdMatcher"
    /\ ncalls < MaxCalls
    /\ \E conversation_history \in {Append(sessions[s], msg)} :
         \E ck \in extract_context_keywords(LastN(conversation_history, context_window_size)) :
           \E x \in Extractions :
             \E r \in {match_ads(conversation_history, x, ck)} :
                 /\ sessions' = [sessions EXCEPT ![s] = conversation_history]
                 /\ conversation_ad_history' = r.history
                 /\ call' = [session |-> s, conv_id |-> r.conv_id,
                             qualified |-> r.qualified, passed |-> r.passed,
                             ret |-> r.ret, raised |-> r.raised,
                             before |-> conversation_ad_history,
                             analysis |-> r.analysis]
                 /\ returned' = [returned EXCEPT ![s] = {r.ret[i].id : i \in 1..Len(r.ret)}]
    /\ ncalls' = ncalls + 1
    /\ UNCHANGED <<component, repo, relevance_threshold, max_ads_per_request>>

NextMatcher == \E s \in Sessions, msg \in Messages : MatchAds(s, msg)

-----------------------------------------------------------------------------
(* QueryAnalyzer: the answer of the external extraction and what
   analyze_conversation makes of it *)

\* A JSON value, with its Python type
JStr(s) == [type |-> "str", value |-> s]
JBool(b) == [type |-> "bool", value |-> b]
JList(items) == [type |-> "list", items |-> items]
JNull == [type |-> "NoneType"]
JStrings(seq) == JList([i \in 1..Len(seq) |-> JStr(seq[i])])

\* default_keys of _extract_data_with_openai; also the result of its
\* `except Exception` and the start of _fallback_extraction
default_keys ==
    [keywords |-> JList(<<>>), intent |-> JStr("unknown"), categories |-> JList(<<>>),
     entities |-> JList(<<>>), sentiment |-> JStr("neutral"),
     is_commercial_intent |-> JBool(FALSE), topics |-> JList(<<>>)]

\* What self.client.chat.completions.create can do: raise (an API error, a
\* timeout), or answer with a text that json.loads accepts or rejects
Responses ==
    { [kind |-> "raised"],
      [kind |-> "text",
       text |-> "Keywords: laptop, tv\nIntent: Transactional\nCommercial Intent: yes"],
      [kind |-> "text", text |-> "Sentiment: Positive\nTopics: electronics"],
      [kind |-> "text", text |-> "no idea"],
      [kind |-> "json", type |-> "dict",
       value |-> [keywords |-> JStrings(<<"laptop", "TV">>), intent |-> JStr("transactional"),
                  categories |-> JStrings(<<"electronics">>), entities |-> JStrings(<<"Dell">>),
                  sentiment |-> JStr("positive"), is_commercial_intent |-> JBool(TRUE),
                  topics |-> JStrings(<<"electronics">>)]],
      [kind |-> "json", type |-> "dict",
       value |-> [keywords |-> JStrings(<<"laptop">>)]],
      [kind |-> "json", type |-> "dict", value |-> <<>>],
      [kind |-> "json", type |-> "dict",
       value |-> [keywords |-> JStr("laptop, tv"), intent |-> JStr("transactional")]],
      [kind |-> "json", type |-> "dict",
       value |-> [keywords |-> JNull, topics |-> JStrings(<<"electronics">>)]],
      [kind |-> "json", type |-> "dict",
       value |-> [keywords |-> JList(<<JStrings(<<"laptop">>)>>)]],
      [kind |-> "json", type |-> "dict",
       value |-> [keywords |-> JStrings(<<"tv">>), entities |-> JStr("Dell"),
                  is_commercial_intent |-> JStr("yes")]],
      [kind |-> "json", type |-> "list", value |-> <<>>] }

\* hay.find(needle) + 1
IndexOf(hay, needle) ==
    IF Contains(hay, needle) /\ Len(needle) > 0
    THEN CHOOSE i \in 1..(Len(hay) - Len(needle) + 1) :
            /\ SubSeq(hay, i, i + Len(needle) - 1) = needle
            /\ \A j \in 1..(i - 1) : SubSeq(hay, j, j + Len(needle) - 1) # needle
    ELSE 0

\* s.split(sep)[0]
BeforeFirst(s, sep) ==
    IF IndexOf(s, sep) = 0 THEN s ELSE SubSeq(s, 1, IndexOf(s, sep) - 1)

\* s.split(sep)[1], for a sep that occurs in s
AfterFirst(s, sep) ==
    BeforeFirst(SubSeq(s, IndexOf(s, sep) + Len(sep), Len(s)), sep)

\* text.split(label)[1].split("\n")[0]
SectionOf(text, label) == BeforeFirst(AfterFirst(text, label), "\n")

\* s.strip()
RECURSIVE Strip(_)
Strip(s) ==
    IF Len(s) = 0 THEN s
    ELSE IF SubSeq(s, 1, 1) \in {" ", "\n", "\t"} THEN Strip(SubSeq(s, 2, Len(s)))
    ELSE IF SubSeq(s, Len(s), Len(s)) \in {" ", "\n", "\t"}
         THEN Strip(SubSeq(s, 1, Len(s) - 1))
    ELSE s

\* [k.strip() for k in s.split(",")]
RECURSIVE StrippedItems(_)
StrippedItems(s) ==
    IF IndexOf(s, ",") = 0 THEN <<Strip(s)>>
    ELSE <<Strip(SubSeq(s, 1, IndexOf(s, ",") - 1))>>
         \o StrippedItems(SubSeq(s, IndexOf(s, ",") + 1, Len(s)))

\* the one of words that the section names first in the if/elif chain,
\* otherwise
FirstNamed(section, words, otherwise) ==
    IF \E k \in 1..Len(words) : Contains(section, words[k])
    THEN words[CHOOSE k \in 1..Len(words) :
                  /\ Contains(section, words[k])
                  /\ \A j \in 1..(k - 1) : ~Contains(section, words[j])]
    ELSE otherwise

\* QueryAnalyzer._fallback_extraction
fallback_extraction(text) ==
    [keywords |->
        IF Contains(text, "Keywords:")
        THEN JStrings(StrippedItems(SectionOf(text, "Keywords:")))
        ELSE default_keys.keywords,
     intent |->
        IF Contains(text, "Intent:")
        THEN JStr(FirstNamed(LowerFrom(Strip(SectionOf(text, "Intent:")), 1),
                             <<"informational", "transactional", "navigational">>,
                             "unknown"))
        ELSE default_keys.intent,
     categories |-> default_keys.categories,
     entities |-> default_keys.entities,
     sentiment |->
        IF Contains(text, "Sentiment:")
        THEN JStr(FirstNamed(LowerFrom(Strip(SectionOf(text, "Sentiment:")), 1),
                             <<"positive", "negative">>, "neutral"))
        ELSE default_keys.sentiment,
     is_commercial_intent |->
        IF Contains(text, "Commercial Intent:")
        THEN JBool(\E w \in {"true", "yes"} :
                      Contains(LowerFrom(Strip(SectionOf(text, "Commercial Intent:")), 1), w))
        ELSE default_keys.is_commercial_intent,
     topics |->
        IF Contains(text, "Topics:")
        THEN JStrings(StrippedItems(Strip(SectionOf(text, "Topics:"))))
        ELSE default_keys.topics]

\* QueryAnalyzer._extract_data_with_openai: a JSON object gets the missing
\* default keys, a text that is not JSON goes to _fallback_extraction, and
\* every exception (of the call, or of `result_json[key] = default_value` on
\* JSON that is not an object) ends in the defaults
extract_data_with_openai(response) ==
    CASE response.kind = "raised" -> default_keys
      [] response.kind = "text" -> fallback_extraction(response.text)
      [] response.kind = "json" /\ response.type = "dict" ->
            [k \in DOMAIN default_keys \cup DOMAIN response.value |->
                IF k \in DOMAIN response.value THEN response.value[k]
                ELSE default_keys[k]]
      [] OTHER -> default_keys

\* extracted_data["keywords"] + context_keywords and set(...) of it raise
\* TypeError unless keywords is a list of hashable values
KeywordsCombine(keywords) ==
    /\ keywords.type = "list"
    /\ \A i \in 1..Len(keywords.items) : keywords.items[i].type # "list"

\* analyze_conversation, lines 102-145, given the answer of the extraction
\* and the context keywords ck: the analysis it returns, or raised
analysis_result(extracted_data, ck) ==
    IF ~KeywordsCombine(extracted_data.keywords) THEN [raised |-> TRUE]
    ELSE [raised |-> FALSE,
          value |-> [tokens |-> Range(extracted_data.keywords.items) \cup {JStr(w) : w \in ck},
                     entities |-> extracted_data.entities,
                     topics |-> extracted_data.topics,
                     categories |-> extracted_data.categories,
                     semantic_score |-> <<>>,
                     commercial_intent |-> extracted_data.is_commercial_intent,
                     sentiment |-> extracted_data.sentiment,
                     intent |-> extracted_data.intent]]

\* analyze_conversation, lines 91-100: no extraction for an empty history
empty_analysis_result ==
    [raised |-> FALSE,
     value |-> [tokens |-> {}, entities |-> JList(<<>>), topics |-> JList(<<>>),
                categories |-> JList(<<>>), semantic_score |-> <<>>,
                commercial_intent |-> JBool(FALSE)]]

\* The conversations handed to analyze_conversation
AnalyzedMessages ==
    { [role |-> "user", content |-> "I want a laptop"],
      [role |-> "user", content |-> "hello"],
      [role |-> "assistant", content |-> "Which brand would you like?"],
      [role |-> "assistant", content |-> ""],
      [role |-> "user"] }

AnalyzedHistories ==
    {<<>>} \cup {<<m>> : m \in AnalyzedMessages}
           \cup {<<m, n>> : m \in AnalyzedMessages, n \in AnalyzedMessages}

NoAnalysis ==
    [conversation_history |-> <<>>, extracted |-> FALSE, response |-> [kind |-> "none"],
     result |-> [raised |-> FALSE, value |-> <<>>]]

IdleAnalyzer ==
    /\ analyzed = NoAnalysis
    /\ nanalyses = 0

\* QueryAnalyzer.analyze_conversation
AnalyzeConversation(conversation_history, response) ==
    /\ component = "QueryAnalyzer"
    /\ nanalyses < MaxAnalyses
    /\ nanalyses' = nanalyses + 1
    /\ \E ck \in extract_context_keywords(conversation_history) :
         analyzed' =
            [conversation_history |-> conversation_history,
             extracted |-> Len(conversation_history) > 0,
             response |-> IF Len(conversation_history) > 0 THEN response
                          ELSE [kind |-> "none"],
             result |-> IF Len(conversation_history) = 0 THEN empty_analysis_result
                        ELSE analysis_result(extract_data_with_openai(response), ck)]
    /\ UNCHANGED component

NextAnalyzer ==
    \E conversation_history \in AnalyzedHistories, response \in Responses :
        AnalyzeConversation(conversation_history, response)

-----------------------------------------------------------------------------
(* ConfigDrivenAdManager: the inventory and its indexes *)

\* rec.get(key, default)
GetOr(rec, key, default) == IF key \in DOMAIN rec THEN rec[key] ELSE default

\* Ads as _load_company_config leaves them in self.ads: every ad has an ad_id
\* and match_weights (the company default is filled in when an ad has none).
\* Weights are in hundredths.
DefaultWeights == [keyword_match |-> 40, category_match |-> 30, intent_match |-> 30]

CfgLaptop ==
    [ad_id |-> "cfg_laptop", title |-> "Gaming Laptop Pro", brand |-> "Dell",
     keywords |-> <<"Laptop", "gaming laptop">>,
     categories |-> <<"Electronics", "computers">>,
     match_weights |-> DefaultWeights]

CfgTV ==
    [ad_id |-> "cfg_tv", title |-> "Smart TV 55",
     keywords |-> <<"tv", "smart tv">>,
     categories |-> <<"electronics">>,
     match_weights |-> [keyword_match |-> 10, category_match |-> 10, intent_match |-> 80]]

CfgMax ==
    [ad_id |-> "cfg_max", title |-> "Everything Store",
     keywords |-> <<"tv", "laptop">>,
     categories |-> <<"electronics">>,
     match_weights |-> [keyword_match |-> 100, category_match |-> 100, intent_match |-> 100]]

CfgRigA ==
    [ad_id |-> "cfg_rig_a", title |-> "Rig A",
     keywords |-> <<"gaming laptop", "tv", "tv">>,
     categories |-> <<"electronics">>,
     match_weights |-> DefaultWeights]

CfgRigB ==
    [ad_id |-> "cfg_rig_b", title |-> "Rig B",
     keywords |-> <<"gaming laptop">>,
     categories |-> <<"computers", "electronics", "gaming">>,
     match_weights |-> DefaultWeights]

\* The inventories (self.ads.values(), in insertion order) of the model
Inventories ==
    { <<CfgLaptop, CfgTV, CfgMax>>,
      <<CfgRigA, CfgRigB>> }

\* An index (a dict of lists) is the list of its entries in insertion order
IndexKeys(index) == {index[i].key : i \in 1..Len(index)}

\* index[key]
IndexGet(index, key) ==
    index[CHOOSE i \in 1..Len(index) : index[i].key = key].ad_ids

\* index[key].append(ad_id) on a defaultdict(list)
IndexAppend(index, key, ad_id) ==
    IF key \in IndexKeys(index)
    THEN [i \in 1..Len(index) |->
            IF index[i].key = key
            THEN [index[i] EXCEPT !.ad_ids = Append(@, ad_id)]
            ELSE index[i]]
    ELSE Append(index, [key |-> key, ad_ids |-> <<ad_id>>])

\* for term in terms[k:]: index[term.lower()].append(ad_id)
RECURSIVE IndexTerms(_, _, _, _)
IndexTerms(index, terms, k, ad_id) ==
    IF k > Len(terms) THEN index
    ELSE IndexTerms(IndexAppend(index, Lower(terms[k]), ad_id), terms, k + 1, ad_id)

\* for ad in ads[i:]: index the terms of ad[field]
RECURSIVE IndexAds(_, _, _, _)
IndexAds(ads_, i, field, index) ==
    IF i > Len(ads_) THEN index
    ELSE IndexAds(ads_, i + 1, field,
                  IndexTerms(index, GetOr(ads_[i], field, <<>>), 1, ads_[i].ad_id))

\* _build_indexes
build_indexes(ads_) ==
    [keyword_index |-> IndexAds(ads_, 1, "keywords", <<>>),
     category_index |-> IndexAds(ads_, 1, "categories", <<>>)]

-----------------------------------------------------------------------------
(* ConfigDrivenAdManager: keyword and category lookups *)

\* A matches dict (ad_id -> list of terms) is the list of its entries in
\* insertion order
MatchIds(matches) == {matches[i].ad_id : i \in 1..Len(matches)}

\* matches[ad_id], [] when absent
MatchTerms(matches, ad_id) ==
    IF ad_id \in MatchIds(matches)
    THEN matches[CHOOSE i \in 1..Len(matches) : matches[i].ad_id = ad_id].terms
    ELSE <<>>

\* if ad_id not in matches: matches[ad_id] = []; matches[ad_id].append(term)
MatchAppend(matches, ad_id, term) ==
    IF ad_id \in MatchIds(matches)
    THEN [i \in 1..Len(matches) |->
            IF matches[i].ad_id = ad_id
            THEN [matches[i] EXCEPT !.terms = Append(@, term)]
            ELSE matches[i]]
    ELSE Append(matches, [ad_id |-> ad_id, terms |-> <<term>>])

\* for ad_id in ad_ids[k:]: append term (when unique: only if not yet listed)
RECURSIVE MatchAppendAll(_, _, _, _, _)
MatchAppendAll(matches, ad_ids, k, term, unique) ==
    IF k > Len(ad_ids) THEN matches
    ELSE MatchAppendAll(
            IF unique /\ term \in Range(MatchTerms(matches, ad_ids[k]))
            THEN matches
            ELSE MatchAppend(matches, ad_ids[k], term),
            ad_ids, k + 1, term, unique)

\* for ad_id in ad_ids[k:]: append keyword to the first ad that does not list it
\* yet, then break
RECURSIVE MatchAppendFirst(_, _, _, _)
MatchAppendFirst(matches, ad_ids, k, keyword) ==
    IF k > Len(ad_ids) THEN matches
    ELSE IF keyword \in Range(MatchTerms(matches, ad_ids[k]))
         THEN MatchAppendFirst(matches, ad_ids, k + 1, keyword)
         ELSE MatchAppend(matches, ad_ids[k], keyword)

\* exact word matches: for word in query_words[k:]
RECURSIVE ExactWordMatches(_, _, _, _)
ExactWordMatches(index, query_words, k, matches) ==
    IF k > Len(query_words) THEN matches
    ELSE ExactWordMatches(index, query_words, k + 1,
            IF query_words[k] \in IndexKeys(index)
            THEN MatchAppendAll(matches, IndexGet(index, query_words[k]), 1,
                                query_words[k], FALSE)
            ELSE matches)

\* multi-word keywords contained in the query: for keyword in index[k:]
RECURSIVE MultiWordMatches(_, _, _, _)
MultiWordMatches(index, k, query, matches) ==
    IF k > Len(index) THEN matches
    ELSE MultiWordMatches(index, k + 1, query,
            IF Contains(index[k].key, " ") /\ Contains(query, index[k].key)
            THEN MatchAppendAll(matches, index[k].ad_ids, 1, index[k].key, FALSE)
            ELSE matches)

\* query words that are a component of a multi-word keyword:
\* for query_word in query_words[q:]
RECURSIVE ComponentMatches(_, _, _, _, _, _)
ComponentMatches(matches, ad_ids, keyword, keyword_parts, query_words, q) ==
    IF q > Len(query_words) THEN matches
    ELSE ComponentMatches(
            IF query_words[q] \in Range(keyword_parts)
            THEN MatchAppendFirst(matches, ad_ids, 1, keyword)
            ELSE matches,
            ad_ids, keyword, keyword_parts, query_words, q + 1)

\* partial matches in both directions: for keyword in index[k:]
RECURSIVE PartialMatches(_, _, _, _, _)
PartialMatches(index, k, query, query_words, matches) ==
    IF k > Len(index) THEN matches
    ELSE LET keyword == index[k].key
             is_already_matched ==
                 \/ keyword \in Range(query_words)
                 \/ Contains(keyword, " ") /\ Contains(query, keyword)
             found_match ==
                 \/ \E w \in 1..Len(query_words) :
                       Contains(query_words[w], keyword) /\ keyword # query_words[w]
                 \/ Contains(query, keyword)
         IN  PartialMatches(index, k + 1, query, query_words,
                IF is_already_matched THEN matches
                ELSE IF found_match
                     THEN MatchAppendAll(matches, index[k].ad_ids, 1, keyword, TRUE)
                     ELSE IF Contains(keyword, " ")
                          THEN ComponentMatches(matches, index[k].ad_ids, keyword,
                                                Split(keyword), query_words, 1)
                          ELSE matches)

\* _find_keyword_matches
find_keyword_matches(index, query) ==
    LET q == Lower(query)
        query_words == FindWords(q)
    IN  PartialMatches(index, 1, q, query_words,
            MultiWordMatches(index, 1, q,
                ExactWordMatches(index, query_words, 1, <<>>)))

\* _find_category_matches
find_category_matches(index, query) ==
    ExactWordMatches(index, FindWords(Lower(query)), 1, <<>>)

-----------------------------------------------------------------------------
(* ConfigDrivenAdManager: conversation context *)

\* A regular expression of the pattern tables: (a|b|...) when then is empty,
\* (a|b|...).*(c|d|...) otherwise; all of them are case-insensitive
Alt(words) == [first |-> words, then |-> {}]
AltThen(words, then) == [first |-> words, then |-> then]

\* re.search(pattern, text)
Search(pattern, text) ==
    LET t == Lower(text)
    IN  IF pattern.then = {}
        THEN \E a \in pattern.first : Contains(t, a)
        ELSE \E a \in pattern.first, b \in pattern.then :
                \E i \in 1..(Len(t) - Len(a) + 1) :
                    /\ SubSeq(t, i, i + Len(a) - 1) = a
                    /\ \E j \in (i + Len(a))..(Len(t) - Len(b) + 1) :
                          SubSeq(t, j, j + Len(b) - 1) = b

\* sum(1 for pattern in patterns if re.search(pattern, text))
CountMatches(patterns, text) ==
    Cardinality({p \in 1..Len(patterns) : Search(patterns[p], text)})

INTENT_PATTERNS ==
    [purchase_intent |->
        << Alt({"looking for", "want to buy", "need a", "shopping for"}),
           Alt({"purchase", "buy", "get", "acquire"}),
           AltThen({"recommend", "suggest"}, {"to buy", "purchase"}) >>,
     research_intent |->
        << Alt({"what's", "what is", "tell me about", "learn about"}),
           Alt({"compare", "difference between", "vs", "versus"}),
           Alt({"recommend", "suggestion", "advice", "opinion"}),
           Alt({"review", "rating", "best"}) >>,
     price_check |->
        << Alt({"how much", "price", "cost", "pricing"}),
           Alt({"cheaper", "expensive", "affordable"}),
           Alt({"deal", "discount", "offer", "sale"}) >>]

PREFERENCE_PATTERNS ==
    [budget_conscious |->
        << Alt({"cheap", "affordable", "budget", "save money", "cost-effective"}),
           Alt({"lowest price", "best deal", "discount", "sale"}) >>,
     premium |->
        << Alt({"high-end", "premium", "luxury", "best quality", "top-tier"}),
           Alt({"professional", "advanced", "elite"}) >>,
     performance |->
        << Alt({"fast", "powerful", "speed", "performance", "efficient"}),
           Alt({"high-performance", "processing", "capacity"}) >>,
     quality |->
        << Alt({"reliable", "durable", "long-lasting", "quality"}),
           Alt({"well-made", "solid", "robust"}) >>,
     convenience |->
        << Alt({"easy", "simple", "convenient", "quick", "handy"}),
           Alt({"user-friendly", "straightforward"}) >>]

\* min(1.0, matches / len(patterns) + 0.3) for each table entry that matches
PatternConfidences(table, text) ==
    LET hit == {k \in DOMAIN table : CountMatches(table[k], text) > 0}
    IN  [k \in hit |->
            Min(Unit, (CountMatches(table[k], text) * Unit) \div Len(table[k])
                      + Frac(Unit, 3, 10))]

\* _detect_intents
detect_intents(query) == PatternConfidences(INTENT_PATTERNS, query)

\* _extract_preferences
extract_preferences(text) == PatternConfidences(PREFERENCE_PATTERNS, text)

\* topic_patterns: the weights are in tenths
TOPIC_PATTERNS ==
    [technology |->
        [patterns |->
            << [re |-> Alt({"computer", "laptop", "phone", "tech", "software",
                            "hardware", "device"}), weight |-> 10],
               [re |-> Alt({"digital", "smart", "electronic", "gadget", "app"}),
                weight |-> 8],
               [re |-> Alt({"processor", "memory", "storage", "battery"}),
                weight |-> 9] >>,
         keywords |-> <<"computer", "laptop", "phone", "tech", "software", "hardware">>],
     fashion |->
        [patterns |->
            << [re |-> Alt({"shoes", "clothing", "wear", "fashion", "style", "outfit"}),
                weight |-> 10],
               [re |-> Alt({"dress", "shirt", "pants", "accessories"}), weight |-> 8],
               [re |-> Alt({"comfortable", "fit", "size"}), weight |-> 7] >>,
         keywords |-> <<"shoes", "clothing", "wear", "fashion", "style">>],
     sports |->
        [patterns |->
            << [re |-> Alt({"run", "sport", "exercise", "fitness", "workout", "training"}),
                weight |-> 10],
               [re |-> Alt({"athletic", "gym", "performance", "endurance"}), weight |-> 8],
               [re |-> Alt({"muscle", "strength", "cardio"}), weight |-> 7] >>,
         keywords |-> <<"run", "sport", "exercise", "fitness", "workout">>]]

RECURSIVE SumWeights(_, _, _)
SumWeights(patterns, k, text) ==
    IF k > Len(patterns) THEN 0
    ELSE (IF Search(patterns[k].re, text) THEN patterns[k].weight ELSE 0)
         + SumWeights(patterns, k + 1, text)

\* the score of one topic before normalisation, in tenths
TopicScore(config, text) ==
    SumWeights(config.patterns, 1, text)
    + 2 * Cardinality({k \in 1..Len(config.keywords) :
                          Contains(Lower(text), config.keywords[k])})

\* _extract_topics
extract_topics(text) ==
    LET hit == {t \in DOMAIN TOPIC_PATTERNS : TopicScore(TOPIC_PATTERNS[t], text) > 0}
    IN  [t \in hit |-> Min(Unit, (TopicScore(TOPIC_PATTERNS[t], text) * Unit) \div 30)]

\* What a user of the chat can ask
Queries ==
    {"laptop", "I want to buy a smart tv", "best electronics deal", "hello", "gaming"}

\* What the user of the conversation whose context is followed can ask
ContextQueries ==
    {"gaming laptop computer phone software", "I want to buy a smart tv"}

\* Queries that name a keyword of one ad and a category of another, a keyword
\* only, and a category only
CategoryQueries == {"tv computers", "gaming", "best electronics deal"}

KnownQueries == Queries \cup ContextQueries \cup CategoryQueries

\* the pattern tables applied to the queries, evaluated once
IntentsOfQueries == [q \in KnownQueries |-> detect_intents(q)] @@ <<>>
PreferencesOfQueries == [q \in KnownQueries |-> extract_preferences(q)] @@ <<>>
TopicsOfQueries == [q \in KnownQueries |-> extract_topics(q)] @@ <<>>

Intents(text) == IF text \in KnownQueries THEN IntentsOfQueries[text] ELSE detect_intents(text)
Preferences(text) ==
    IF text \in KnownQueries THEN PreferencesOfQueries[text] ELSE extract_preferences(text)
Topics(text) == IF text \in KnownQueries THEN TopicsOfQueries[text] ELSE extract_topics(text)

\* list(some_set): the elements in one of the orders a set can be iterated in.
\* Every text of KnownQueries names at most one product of the inventories, so the
\* lists built here have at most one element and the order is not a choice.
RECURSIVE ListOf(_)
ListOf(set) ==
    IF set = {} THEN <<>>
    ELSE LET x == CHOOSE e \in set : TRUE
         IN  <<x>> \o ListOf(set \ {x})

\* _extract_products: multi-word keywords of the index and brands of the
\* inventory that occur in the text
extract_products(keyword_index_, ads_, text) ==
    ListOf({keyword_index_[i].key : i \in {k \in 1..Len(keyword_index_) :
                /\ Contains(keyword_index_[k].key, " ")
                /\ Contains(Lower(text), keyword_index_[k].key)}}
           \cup {Lower(GetOr(ads_[i], "brand", "")) : i \in {k \in 1..Len(ads_) :
                /\ GetOr(ads_[k], "brand", "") # ""
                /\ Contains(Lower(text), Lower(GetOr(ads_[k], "brand", "")))}})

\* defaultdict(float)[key]
ScoreOf(scores, key) == IF key \in DOMAIN scores THEN scores[key] ELSE 0

\* for key, score in current.items():
\*     old_score = scores[key] * num/den              (read is what it reads)
\*     scores[key] = min(1.0, max(old_score, score))
WriteScores(scores, read, current, num, den) ==
    [k \in DOMAIN scores \cup DOMAIN current |->
        IF k \in DOMAIN current
        THEN Min(Unit, Max(Frac(ScoreOf(read, k), num, den), current[k]))
        ELSE scores[k]]

\* the same loop when nothing else writes scores between its read and its write
DecayAndRaise(scores, current, num, den) == WriteScores(scores, scores, current, num, den)

\* for key, score in current.items():
\*     scores[key] = min(1.0, scores[key] * 0.9 + score * 0.1)
Blend(scores, current) ==
    [k \in DOMAIN scores \cup DOMAIN current |->
        IF k \in DOMAIN current
        THEN Min(Unit, Frac(ScoreOf(scores, k), 9, 10) + Frac(current[k], 1, 10))
        ELSE scores[k]]

\* one more record per product; time stamps are left out
NewProduct(product) == [name |-> product, mention_count |-> 1]

\* for product in products[k:]: a product (a str) is never an element of
\* discussed_products (a list of dicts), so the record is always appended
RECURSIVE TrackProducts(_, _, _)
TrackProducts(discussed_products, products, k) ==
    IF k > Len(products) THEN discussed_products
    ELSE TrackProducts(Append(discussed_products, NewProduct(products[k])),
                       products, k + 1)

\* for product in products[k:]: append a record unless one has its name
RECURSIVE TrackHistoryProducts(_, _, _)
TrackHistoryProducts(discussed_products, products, k) ==
    IF k > Len(products) THEN discussed_products
    ELSE TrackHistoryProducts(
            IF products[k] \in {discussed_products[i].name :
                                   i \in 1..Len(discussed_products)}
            THEN discussed_products
            ELSE Append(discussed_products, NewProduct(products[k])),
            products, k + 1)

\* AppendCapped dropping the newest element instead of the oldest
AppendCappedMutant(seq, x, n) ==
    IF Len(seq) + 1 > n THEN seq ELSE Append(seq, x)

\* list.append(x) keeping the last n elements
AppendCapped(seq, x, n) ==
    IF Len(seq) + 1 > n THEN Tail(Append(seq, x)) ELSE Append(seq, x)

HistoryWindow == 5
MaxLastQueries == 5
MaxTopicHistory == 10

\* _process_history: for message in history[m:]
RECURSIVE process_history(_, _, _, _, _)
process_history(context_data, keyword_index_, ads_, history, m) ==
    IF m > Len(history) THEN context_data
    ELSE process_history(
            IF "content" \in DOMAIN history[m]
            THEN [context_data EXCEPT
                    !.topics = Blend(@, Topics(history[m].content)),
                    !.preferences = Blend(@, Preferences(history[m].content)),
                    !.discussed_products =
                        TrackHistoryProducts(@, extract_products(keyword_index_, ads_,
                                                    history[m].content), 1)]
            ELSE context_data,
            keyword_index_, ads_, history, m + 1)

NewContext ==
    [topics |-> <<>>, intents |-> <<>>, preferences |-> <<>>,
     discussed_products |-> <<>>, topic_history |-> <<>>, last_queries |-> <<>>]

\* None or an empty dict
NoContext == <<>>

\* context.get('conversation_id', 'default')
ConversationIdOf(context) == GetOr(context, "conversation_id", "default")

\* _update_conversation_context, lines 280-298: last_queries and topic_history
note_query(context_data, query) ==
    [context_data EXCEPT
        !.topic_history =
            IF DOMAIN Topics(query) # {}
            THEN AppendCapped(@, Topics(query), MaxTopicHistory)
            ELSE @,
        !.last_queries = AppendCapped(@, query, MaxLastQueries)]

\* _update_conversation_context, lines 301-333: the scores and the products;
\* read_topics is what line 302 read
raise_scores(context_data, read_topics, keyword_index_, ads_, query) ==
    [context_data EXCEPT
        !.topics = WriteScores(@, read_topics, Topics(query), 4, 5),
        !.intents = DecayAndRaise(@, Intents(query), 4, 5),
        !.preferences = DecayAndRaise(@, Preferences(query), 9, 10),
        !.discussed_products =
            TrackProducts(@, extract_products(keyword_index_, ads_, query), 1)]

\* _update_conversation_context, lines 336-337; conversation_history is <<>>
\* when None or empty
fold_history(context_data, keyword_index_, ads_, conversation_history) ==
    IF Len(conversation_history) > 0
    THEN process_history(context_data, keyword_index_, ads_,
                         LastN(conversation_history, HistoryWindow), 1)
    ELSE context_data

\* the context of the conversation, a new one when it has none
context_of_conversation(contexts, conv_id) ==
    IF conv_id \in DOMAIN contexts THEN contexts[conv_id] ELSE NewContext

\* _update_conversation_context run without interruption
update_conversation_context(contexts, keyword_index_, ads_, query, context, conversation_history) ==
    [c \in DOMAIN contexts \cup {ConversationIdOf(context)} |->
        IF c = ConversationIdOf(context)
        THEN fold_history(
                raise_scores(note_query(context_of_conversation(contexts, c), query),
                             context_of_conversation(contexts, c).topics,
                             keyword_index_, ads_, query),
                keyword_index_, ads_, conversation_history)
        ELSE contexts[c]]

-----------------------------------------------------------------------------
(* ConfigDrivenAdManager: relevance scores and the best ad *)

\* the ad of the inventory with this ad_id, [] when none has it
AdsWithId(ads_, ad_id) == SelectSeq(ads_, LAMBDA ad : ad.ad_id = ad_id)

\* the highest intent score of the conversation, 0.0 without one
intent_score_of(contexts, context) ==
    IF /\ DOMAIN context # {}
       /\ "conversation_id" \in DOMAIN context
       /\ context.conversation_id \in DOMAIN contexts
       /\ DOMAIN contexts[context.conversation_id].intents # {}
    THEN LET intents == contexts[context.conversation_id].intents
         IN  CHOOSE v \in {intents[k] : k \in DOMAIN intents} :
                \A k \in DOMAIN intents : intents[k] <= v
    ELSE 0

\* CapScore without the cap
CapScoreMutant(total_score) == total_score

\* min(1.0, total_score)
CapScore(total_score) == Min(Unit, total_score)

\* the score record of an ad matched by keywords
KeywordScored(ad, matched_keywords, query, intent_score) ==
    LET weights == ad.match_weights
        total_keywords == Len(GetOr(ad, "keywords", <<>>))
        keyword_count == Len(matched_keywords)
        exact == \E k \in 1..Len(matched_keywords) :
                    Contains(Lower(query), Lower(matched_keywords[k]))
        keyword_score ==
            Min(Unit, Frac((keyword_count * Unit) \div Max(1, Min(total_keywords, 5)),
                           IF exact THEN 3 ELSE 2, 2))
        direct_term_score ==
            IF \E k \in 1..Len(matched_keywords) : Contains(query, matched_keywords[k])
            THEN Unit ELSE Frac(Unit, 8, 10)
        total_score ==
            Frac(keyword_score, weights.keyword_match, 100)
            + Frac(direct_term_score, weights.category_match, 100)
            + Frac(intent_score, weights.intent_match, 100)
        boosted == IF keyword_count > 1 THEN Frac(total_score, 6, 5) ELSE total_score
    IN  [ad_id |-> ad.ad_id,
         total_score |-> CapScore(boosted),
         keyword_score |-> keyword_score,
         direct_term_score |-> direct_term_score,
         intent_score |-> intent_score,
         matched_keywords |-> matched_keywords,
         matched_categories |-> <<>>]

\* the score record of an ad matched by categories
CategoryScored(ad, matched_categories, intent_score) ==
    LET weights == ad.match_weights
        total_categories == Len(GetOr(ad, "categories", <<>>))
        category_count == Len(matched_categories)
        category_score ==
            IF total_categories > 0
            THEN Min(Unit, (category_count * Unit) \div Max(1, total_categories))
            ELSE 0
        total_score ==
            Frac(category_score, weights.category_match, 100)
            + Frac(intent_score, weights.intent_match, 100)
    IN  [ad_id |-> ad.ad_id,
         total_score |-> CapScore(total_score),
         category_score |-> category_score,
         keyword_score |-> 0,
         direct_term_score |-> 0,
         intent_score |-> intent_score,
         matched_keywords |-> <<>>,
         matched_categories |-> matched_categories]

\* for ad_id, matched_keywords in keyword_matches[k:]
RECURSIVE ScoreKeywordMatches(_, _, _, _, _, _)
ScoreKeywordMatches(ads_, keyword_matches, k, query, intent_score, scored_ads) ==
    IF k > Len(keyword_matches) THEN scored_ads
    ELSE LET found == AdsWithId(ads_, keyword_matches[k].ad_id)
         IN  ScoreKeywordMatches(ads_, keyword_matches, k + 1, query, intent_score,
                IF Len(found) = 0 THEN scored_ads
                ELSE Append(scored_ads,
                            KeywordScored(found[1], keyword_matches[k].terms,
                                          query, intent_score)))

\* scored_ads[ad_id], updated with the category information
AddCategoryScore(entry, c) ==
    [k \in DOMAIN entry \cup {"category_score"} |->
        CASE k = "category_score" -> c.category_score
          [] k = "matched_categories" -> c.matched_categories
          [] k = "intent_score" -> c.intent_score
          [] k = "total_score" ->
                CapScore(entry.total_score + c.total_score)
          [] OTHER -> entry[k]]

\* for ad_id, matched_categories in category_matches[k:]
RECURSIVE ScoreCategoryMatches(_, _, _, _, _)
ScoreCategoryMatches(ads_, category_matches, k, intent_score, scored_ads) ==
    IF k > Len(category_matches) THEN scored_ads
    ELSE LET found == AdsWithId(ads_, category_matches[k].ad_id)
             c == CategoryScored(found[1], category_matches[k].terms, intent_score)
             seen == {i \in 1..Len(scored_ads) :
                        scored_ads[i].ad_id = category_matches[k].ad_id}
         IN  ScoreCategoryMatches(ads_, category_matches, k + 1, intent_score,
                IF Len(found) = 0 THEN scored_ads
                ELSE IF seen # {}
                     THEN [i \in 1..Len(scored_ads) |->
                             IF i \in seen THEN AddCategoryScore(scored_ads[i], c)
                             ELSE scored_ads[i]]
                     ELSE Append(scored_ads, c))

\* v['total_score'] >= threshold
MeetsDefaultThreshold(total_score, threshold) == total_score >= threshold

\* _calculate_relevance_scores: the scores of all matched ads (scored) and
\* those at or above the threshold (filtered), the dict it returns
calculate_relevance_scores(ads_, contexts, threshold, query, keyword_matches, category_matches, context) ==
    LET intent_score == intent_score_of(contexts, context)
        scored_ads ==
            ScoreCategoryMatches(ads_, category_matches, 1, intent_score,
                ScoreKeywordMatches(ads_, keyword_matches, 1, query, intent_score, <<>>))
    IN  [scored |-> scored_ads,
         filtered |-> SelectSeq(scored_ads,
                         LAMBDA v : MeetsDefaultThreshold(v.total_score, threshold))]

RECURSIVE InsertByTotal(_, _)
InsertByTotal(sorted, e) ==
    IF Len(sorted) = 0 THEN <<e>>
    ELSE IF Head(sorted).total_score >= e.total_score
         THEN <<Head(sorted)>> \o InsertByTotal(Tail(sorted), e)
         ELSE <<e>> \o sorted

\* SortedByTotal leaving the list as it is
SortedByTotalMutant(scored_ads) == scored_ads

\* sorted(scored_ads.items(), key=total_score, reverse=True): stable
RECURSIVE SortedByTotal(_)
SortedByTotal(scored_ads) ==
    IF Len(scored_ads) = 0 THEN <<>>
    ELSE InsertByTotal(SortedByTotal(SubSeq(scored_ads, 1, Len(scored_ads) - 1)),
                       scored_ads[Len(scored_ads)])

\* ad.copy() with match_factors attached
WithMatchFactors(ad, top_score) ==
    [k \in DOMAIN ad \cup {"match_factors"} |->
        IF k = "match_factors" THEN top_score ELSE ad[k]]

\* step 4 of get_relevant_ad: the ad with the first entry of the sorted
\* scores, with its match_factors (<<>> for None, <<ad>> otherwise)
best_ad(ads_, sorted_ads) ==
    IF Len(sorted_ads) > 0 /\ Len(AdsWithId(ads_, sorted_ads[1].ad_id)) > 0
    THEN <<WithMatchFactors(AdsWithId(ads_, sorted_ads[1].ad_id)[1], sorted_ads[1])>>
    ELSE <<>>

\* what a get_relevant_ad call leaves and returns, given the scores s
lookup_result(ads_, contexts, keyword_matches, category_matches, s) ==
    [contexts |-> contexts,
     keyword_matches |-> keyword_matches,
     category_matches |-> category_matches,
     scored |-> s.scored,
     filtered |-> s.filtered,
     result |-> best_ad(ads_, SortedByTotal(s.filtered))]

\* step 3 of get_relevant_ad: the relevance scores of the matches
score_matches(ads_, contexts, threshold, normalized_query, keyword_matches, category_matches, context) ==
    lookup_result(ads_, contexts, keyword_matches, category_matches,
                  calculate_relevance_scores(ads_, contexts, threshold, normalized_query,
                                             keyword_matches, category_matches, context))

\* match_categories consulting the category index whatever the keyword matches
match_categoriesMutant(ads_, category_index_, contexts, threshold, normalized_query, keyword_matches, context) ==
    score_matches(ads_, contexts, threshold, normalized_query, keyword_matches,
                  find_category_matches(category_index_, normalized_query),
                  context)

\* step 2 of get_relevant_ad: category matching if no keyword matches
match_categories(ads_, category_index_, contexts, threshold, normalized_query, keyword_matches, context) ==
    score_matches(ads_, contexts, threshold, normalized_query, keyword_matches,
                  IF Len(keyword_matches) = 0
                  THEN find_category_matches(category_index_, normalized_query)
                  ELSE <<>>,
                  context)

\* step 1 of get_relevant_ad: direct keyword matching
match_keywords(ads_, keyword_index_, category_index_, contexts, threshold, normalized_query, context) ==
    match_categories(ads_, category_index_, contexts, threshold, normalized_query,
                     find_keyword_matches(keyword_index_, normalized_query), context)

\* get_relevant_ad: the contexts it leaves, the matches, the scores, and the
\* ad it returns
config_get_relevant_ad(ads_, keyword_index_, category_index_, contexts, threshold, query, context, conversation_history) ==
    match_keywords(ads_, keyword_index_, category_index_,
                   IF DOMAIN context # {}
                   THEN update_conversation_context(contexts, keyword_index_, ads_, query,
                                                    context, conversation_history)
                   ELSE contexts,
                   threshold, Lower(query), context)

-----------------------------------------------------------------------------
(* The chats that call ConfigDrivenAdManager.get_relevant_ad *)

\* "none" calls get_relevant_ad(query); the others are chat sessions, which
\* pass their session id as conversation_id and their messages as history
Callers == {"none", "chat1", "chat2"}

\* system_config['default_relevance_threshold'], in hundredths
DefaultRelevanceThreshold == 30

NoLookup ==
    [query |-> "", caller |-> "none", keyword_matches |-> <<>>,
     category_matches |-> <<>>, scored |-> <<>>, filtered |-> <<>>, result |-> <<>>]

IdleConfig ==
    /\ ads = <<>>
    /\ keyword_index = <<>>
    /\ category_index = <<>>
    /\ default_relevance_threshold = 0
    /\ conversation_contexts = <<>>
    /\ chats = <<>>
    /\ lookup = NoLookup
    /\ nqueries = 0

InitConfig ==
    /\ ads \in Inventories
    /\ keyword_index = build_indexes(ads).keyword_index
    /\ category_index = build_indexes(ads).category_index
    /\ default_relevance_threshold = (DefaultRelevanceThreshold * Unit) \div 100
    /\ conversation_contexts = <<>>
    /\ chats = [c \in Callers \ {"none"} |-> <<>>]
    /\ lookup = NoLookup
    /\ nqueries = 0

\* A caller asks for the ad relevant to query
GetRelevantAd(caller, query) ==
    /\ component = "ConfigDrivenAdManager"
    /\ nqueries < MaxQueries
    /\ \E context \in {IF caller = "none" THEN NoContext
                       ELSE [conversation_id |-> caller]} :
         \E conversation_history \in
              {IF caller = "none" THEN <<>>
               ELSE Append(chats[caller], [role |-> "user", content |-> query])} :
           \E r \in {config_get_relevant_ad(ads, keyword_index, category_index,
                        conversation_contexts, default_relevance_threshold,
                        query, context, conversation_history)} :
               /\ conversation_contexts' = r.contexts
               /\ chats' = IF caller = "none" THEN chats
                           ELSE [chats EXCEPT ![caller] = conversation_history]
               /\ lookup' = [query |-> query, caller |-> caller,
                             keyword_matches |-> r.keyword_matches,
                             category_matches |-> r.category_matches,
                             scored |-> r.scored, filtered |-> r.filtered,
                             result |-> r.result]
    /\ nqueries' = nqueries + 1
    /\ UNCHANGED <<component, ads, keyword_index, category_index,
                   default_relevance_threshold>>

NextConfig == \E caller \in Callers, query \in Queries : GetRelevantAd(caller, query)

\* Inventories in which an ad can match a query by category while another
\* matches it by keyword
CategoryInventories ==
    { <<CfgTV, CfgLaptop>>,
      <<CfgRigA, CfgRigB>> }

InitCategory ==
    /\ ads \in CategoryInventories
    /\ keyword_index = build_indexes(ads).keyword_index
    /\ category_index = build_indexes(ads).category_index
    /\ default_relevance_threshold = (DefaultRelevanceThreshold * Unit) \div 100
    /\ conversation_contexts = <<>>
    /\ chats = [c \in Callers \ {"none"} |-> <<>>]
    /\ lookup = NoLookup
    /\ nqueries = 0

NextCategory ==
    \E caller \in Callers, query \in CategoryQueries : GetRelevantAd(caller, query)

-----------------------------------------------------------------------------
(* ConfigDrivenAdManager: loading the company directories, reload_config *)

\* The companies directory on disk, as os.listdir hands it out: the company
\* directories, the campaign files of each, the ad records of each campaign.
\* An ad record is what json.load returns for it.
AdWithoutId ==
    [title |-> "Untitled", keywords |-> <<"tv">>, categories |-> <<"electronics">>]

CompanyStore ==
    [company_id |-> "store",
     ad_settings |-> [default_match_weights |-> DefaultWeights],
     campaigns |-> << [campaign_id |-> "spring", ads |-> <<CfgLaptop, CfgTV>>],
                      [campaign_id |-> "summer", ads |-> <<CfgMax>>] >>]

CompanyBrokenStore ==
    [company_id |-> "store",
     ad_settings |-> [default_match_weights |-> DefaultWeights],
     campaigns |-> << [campaign_id |-> "spring", ads |-> <<CfgLaptop, AdWithoutId, CfgTV>>],
                      [campaign_id |-> "summer", ads |-> <<CfgMax>>] >>]

CompanyRigs ==
    [company_id |-> "rigs",
     ad_settings |-> [default_match_weights |-> DefaultWeights],
     campaigns |-> << [campaign_id |-> "rigs", ads |-> <<CfgRigA, CfgRigB>>] >>]

Directories ==
    { <<CompanyStore>>,
      <<CompanyBrokenStore, CompanyRigs>>,
      <<CompanyRigs, CompanyStore>> }

\* self.ads[ad_id] = ad on a dict kept in insertion order
PutAd(ads_, ad) ==
    IF \E i \in 1..Len(ads_) : ads_[i].ad_id = ad.ad_id
    THEN [i \in 1..Len(ads_) |-> IF ads_[i].ad_id = ad.ad_id THEN ad ELSE ads_[i]]
    ELSE Append(ads_, ad)

\* the ad record with company_id, campaign_id and, when it has none, the
\* company's default match_weights
prepared_ad(ad, company, campaign) ==
    [k \in DOMAIN ad \cup {"company_id", "campaign_id", "match_weights"} |->
        CASE k = "company_id" -> company.company_id
          [] k = "campaign_id" -> campaign.campaign_id
          [] k = "match_weights" ->
                IF "match_weights" \in DOMAIN ad THEN ad.match_weights
                ELSE company.ad_settings.default_match_weights
          [] OTHER -> ad[k]]

\* for ad in campaign['ads'][k:]: a record without ad_id raises KeyError at
\* self.ads[ad['ad_id']] = ad, which ends the loading of the company
RECURSIVE load_campaign_ads(_, _, _, _)
load_campaign_ads(ads_, company, campaign, k) ==
    IF k > Len(campaign.ads) THEN [ads |-> ads_, raised |-> FALSE]
    ELSE IF "ad_id" \notin DOMAIN campaign.ads[k] THEN [ads |-> ads_, raised |-> TRUE]
    ELSE load_campaign_ads(PutAd(ads_, prepared_ad(campaign.ads[k], company, campaign)),
                           company, campaign, k + 1)

\* for campaign_file in campaign_files[c:]
RECURSIVE load_campaigns(_, _, _)
load_campaigns(ads_, company, c) ==
    IF c > Len(company.campaigns) THEN ads_
    ELSE LET r == load_campaign_ads(ads_, company, company.campaigns[c], 1)
         IN  IF r.raised THEN r.ads ELSE load_campaigns(r.ads, company, c + 1)

\* _load_company_config, with the except of _load_company_configs around it:
\* self.ads after the company is loaded or given up
load_company_config(ads_, company) == load_campaigns(ads_, company, 1)

\* _load_company_configs: for company_dir in company_dirs[c:]
RECURSIVE load_company_configs(_, _, _)
load_company_configs(ads_, directory, c) ==
    IF c > Len(directory) THEN ads_
    ELSE load_company_configs(load_company_config(ads_, directory[c]), directory, c + 1)

\* self.keyword_index = defaultdict(list): the index _build_indexes starts from
NewIndexMutant(index) == index

NewIndex(index) == <<>>

\* reload_config and _build_indexes are followed statement by statement; pc is
\* the statement reload_config is at, next the company or ad its loop is at
NoReload == [pc |-> "idle", next |-> 0]

IdleReload ==
    /\ companies_dir = <<>>
    /\ reload = NoReload
    /\ nreloads = 0
    /\ nbuilds = 0

\* __init__: the companies are loaded and the indexes built
InitReload ==
    /\ companies_dir \in Directories
    /\ ads = load_company_configs(<<>>, companies_dir, 1)
    /\ keyword_index = build_indexes(ads).keyword_index
    /\ category_index = build_indexes(ads).category_index
    /\ default_relevance_threshold = (DefaultRelevanceThreshold * Unit) \div 100
    /\ conversation_contexts = <<>>
    /\ chats = [c \in Callers \ {"none"} |-> <<>>]
    /\ lookup = NoLookup
    /\ nqueries = 0
    /\ reload = NoReload
    /\ nreloads = 0
    /\ nbuilds = 0

\* reload_config, lines 792-793: self.ads = {}; the directory is as the
\* external configuration left it
ReloadConfig(directory) ==
    /\ component = "ConfigDrivenAdManager"
    /\ reload.pc = "idle"
    /\ nreloads < MaxReloads
    /\ nreloads' = nreloads + 1
    /\ companies_dir' = directory
    /\ ads' = <<>>
    /\ reload' = [pc |-> "load", next |-> 1]
    /\ UNCHANGED <<component, keyword_index, category_index, default_relevance_threshold,
                   conversation_contexts, chats, lookup, nqueries, nbuilds>>

\* reload_config, line 794: one company of _load_company_configs
LoadCompanyConfig ==
    /\ component = "ConfigDrivenAdManager"
    /\ reload.pc = "load"
    /\ reload.next <= Len(companies_dir)
    /\ ads' = load_company_config(ads, companies_dir[reload.next])
    /\ reload' = [reload EXCEPT !.next = @ + 1]
    /\ UNCHANGED <<component, keyword_index, category_index, default_relevance_threshold,
                   conversation_contexts, chats, lookup, nqueries,
                   companies_dir, nreloads, nbuilds>>

\* _build_indexes, lines 220-221: both indexes are replaced by empty ones
ResetIndexes ==
    /\ component = "ConfigDrivenAdManager"
    /\ reload.pc = "load"
    /\ reload.next > Len(companies_dir)
    /\ keyword_index' = NewIndex(keyword_index)
    /\ category_index' = NewIndex(category_index)
    /\ reload' = IF Len(ads) = 0 THEN NoReload ELSE [pc |-> "index", next |-> 1]
    /\ UNCHANGED <<component, ads, default_relevance_threshold, conversation_contexts, chats,
                   lookup, nqueries, companies_dir, nreloads, nbuilds>>

\* _build_indexes, lines 223-234: the keywords and categories of one ad
IndexAd ==
    /\ component = "ConfigDrivenAdManager"
    /\ reload.pc = "index"
    /\ keyword_index' = IndexTerms(keyword_index, GetOr(ads[reload.next], "keywords", <<>>),
                                   1, ads[reload.next].ad_id)
    /\ category_index' = IndexTerms(category_index, GetOr(ads[reload.next], "categories", <<>>),
                                    1, ads[reload.next].ad_id)
    /\ reload' = IF reload.next = Len(ads) THEN NoReload
                 ELSE [reload EXCEPT !.next = @ + 1]
    /\ UNCHANGED <<component, ads, default_relevance_threshold, conversation_contexts, chats,
                   lookup, nqueries, companies_dir, nreloads, nbuilds>>

\* _build_indexes called as a whole on the loaded inventory
BuildIndexes ==
    /\ component = "ConfigDrivenAdManager"
    /\ reload.pc = "idle"
    /\ nbuilds < MaxBuilds
    /\ nbuilds' = nbuilds + 1
    /\ keyword_index' = IndexAds(ads, 1, "keywords", NewIndex(keyword_index))
    /\ category_index' = IndexAds(ads, 1, "categories", NewIndex(category_index))
    /\ UNCHANGED <<component, ads, default_relevance_threshold, conversation_contexts, chats,
                   lookup, nqueries, companies_dir, reload, nreloads>>

\* get_relevant_ad(query) from a thread of its own: it may run between any two
\* statements of reload_config
LookupDuringReload(query) == GetRelevantAd("none", query) /\ UNCHANGED reloadVars

NextReload ==
    \/ \E directory \in Directories : ReloadConfig(directory)
    \/ LoadCompanyConfig
    \/ ResetIndexes
    \/ IndexAd
    \/ BuildIndexes
    \/ \E query \in Queries : LookupDuringReload(query)

-----------------------------------------------------------------------------
(* ConfigDrivenAdManager: two threads in _update_conversation_context *)

\* The threads that call _update_conversation_context, both for the
\* conversation UpdatedConversation
Updaters == {"t1", "t2"}

UpdatedConversation == "chat1"

\* conversation_history of a call: None, or the message of the query
HistoriesOf(query) == { <<>>, <<[role |-> "user", content |-> query]>> }

\* A thread is followed through _update_conversation_context:
\*   "check"  before line 266, `if conv_id not in self.conversation_contexts`
\*   "create" before line 267, the assignment of a new context
\*   "bind"   before line 277, `context_data = self.conversation_contexts[conv_id]`
\*   "write"  before line 303, the first write of a score; read_topics holds
\*            what line 302 read; orphan says that the dict context_data is
\*            bound to has been replaced in self.conversation_contexts
\*   "done"   after the call
IdleUpdater ==
    [pc |-> "idle", query |-> "", conversation_history |-> <<>>,
     read_topics |-> <<>>, orphan |-> FALSE]

IdleUpdaters ==
    /\ updaters = <<>>
    /\ base_contexts = <<>>
    /\ nrounds = 0

InitUpdaters ==
    /\ updaters = [t \in Updaters |-> IdleUpdater]
    /\ base_contexts = <<>>
    /\ nrounds = 0

\* both threads enter _update_conversation_context
StartUpdates(q1, h1, q2, h2) ==
    /\ component = "ConfigDrivenAdManager"
    /\ \A t \in Updaters : updaters[t].pc \in {"idle", "done"}
    /\ nrounds < MaxRounds
    /\ nrounds' = nrounds + 1
    /\ base_contexts' = conversation_contexts
    /\ updaters' = [t \in Updaters |->
                      [pc |-> "check",
                       query |-> IF t = "t1" THEN q1 ELSE q2,
                       conversation_history |-> IF t = "t1" THEN h1 ELSE h2,
                       read_topics |-> <<>>, orphan |-> FALSE]]
    /\ UNCHANGED <<component, configVars>>

\* line 266
CheckContext(t) ==
    /\ component = "ConfigDrivenAdManager"
    /\ updaters[t].pc = "check"
    /\ updaters' = [updaters EXCEPT ![t].pc =
                      IF UpdatedConversation \in DOMAIN conversation_contexts
                      THEN "bind" ELSE "create"]
    /\ UNCHANGED <<component, configVars, base_contexts, nrounds>>

\* lines 267-275: the new dict replaces whatever the conversation has
CreateContext(t) ==
    /\ component = "ConfigDrivenAdManager"
    /\ updaters[t].pc = "create"
    /\ conversation_contexts' =
          [c \in DOMAIN conversation_contexts \cup {UpdatedConversation} |->
              IF c = UpdatedConversation THEN NewContext ELSE conversation_contexts[c]]
    /\ updaters' = [u \in Updaters |->
                      IF u = t THEN [updaters[u] EXCEPT !.pc = "bind"]
                      ELSE IF updaters[u].pc = "write"
                           THEN [updaters[u] EXCEPT !.orphan = TRUE]
                           ELSE updaters[u]]
    /\ UNCHANGED <<component, ads, keyword_index, category_index,
                   default_relevance_threshold, chats, lookup, nqueries,
                   base_contexts, nrounds>>

\* lines 277-302: context_data is bound, the query is noted and the old topic
\* scores are read
BindContext(t) ==
    /\ component = "ConfigDrivenAdManager"
    /\ updaters[t].pc = "bind"
    /\ conversation_contexts' =
          [conversation_contexts EXCEPT ![UpdatedConversation] =
              note_query(@, updaters[t].query)]
    /\ updaters' = [updaters EXCEPT
                      ![t].pc = "write",
                      ![t].read_topics = conversation_contexts[UpdatedConversation].topics]
    /\ UNCHANGED <<component, ads, keyword_index, category_index,
                   default_relevance_threshold, chats, lookup, nqueries,
                   base_contexts, nrounds>>

\* lines 303-337: the scores and products are written to the dict
\* context_data is bound to; _process_history then looks the conversation up
\* again (line 404)
WriteContext(t) ==
    /\ component = "ConfigDrivenAdManager"
    /\ updaters[t].pc = "write"
    /\ conversation_contexts' =
          [conversation_contexts EXCEPT ![UpdatedConversation] =
              fold_history(
                 IF updaters[t].orphan THEN @
                 ELSE raise_scores(@, updaters[t].read_topics, keyword_index, ads,
                                   updaters[t].query),
                 keyword_index, ads, updaters[t].conversation_history)]
    /\ updaters' = [updaters EXCEPT ![t].pc = "done"]
    /\ UNCHANGED <<component, ads, keyword_index, category_index,
                   default_relevance_threshold, chats, lookup, nqueries,
                   base_contexts, nrounds>>

NextUpdaters ==
    \/ \E q1 \in Queries, q2 \in Queries :
         \E h1 \in HistoriesOf(q1), h2 \in HistoriesOf(q2) : StartUpdates(q1, h1, q2, h2)
    \/ \E t \in Updaters :
         \/ CheckContext(t)
         \/ CreateContext(t)
         \/ BindContext(t)
         \/ WriteContext(t)

\* the contexts after updater first and then updater second have run one
\* after the other from base_contexts
serial_updates(first, second) ==
    update_conversation_context(
        update_conversation_context(base_contexts, keyword_index, ads,
            updaters[first].query, [conversation_id |-> UpdatedConversation],
            updaters[first].conversation_history),
        keyword_index, ads, updaters[second].query,
        [conversation_id |-> UpdatedConversation],
        updaters[second].conversation_history)

-----------------------------------------------------------------------------
(* ConfigDrivenAdManager: the context of one conversation, call after call *)

\* the conversation whose context is followed
ContextConversation == "chat1"

NoUpdate == [conv_id |-> "", query |-> ""]

IdleContext ==
    /\ last_update = NoUpdate
    /\ nupdates = 0

\* the messages of a chat after the user has asked query
WithQuery(messages, query) == Append(messages, [role |-> "user", content |-> query])

\* _update_conversation_context(query, context, conversation_history), as
\* get_relevant_ad calls it for a chat: the chat passes its id as
\* conversation_id and its messages, the query included, as history
UpdateConversationContext(conv_id, query) ==
    /\ component = "ConfigDrivenAdManager"
    /\ nupdates < MaxUpdates
    /\ nupdates' = nupdates + 1
    /\ chats' = [chats EXCEPT ![conv_id] = WithQuery(@, query)]
    /\ conversation_contexts' =
          update_conversation_context(conversation_contexts, keyword_index, ads, query,
                                      [conversation_id |-> conv_id],
                                      WithQuery(chats[conv_id], query))
    /\ last_update' = [conv_id |-> conv_id, query |-> query]
    /\ UNCHANGED <<component, ads, keyword_index, category_index,
                   default_relevance_threshold, lookup, nqueries>>

NextContext ==
    \E query \in ContextQueries : UpdateConversationContext(ContextConversation, query)

-----------------------------------------------------------------------------
(* RankingEngine: the business factors, the final score, the ranked list *)

\* Money is in cents, a click-through rate in hundredths of a percent.
\* self.weights, in hundredths
weights == [relevance |-> 40, bid |-> 35, ctr |-> 15, budget |-> 5, targeting |-> 5]

\* self.ranking_config.get("max_bid", 5.0), in cents
max_bid == 500

\* self.ranking_config.get("baseline_ctr", 2.0), in hundredths
baseline_ctr == 200

\* min(1.0, a / b) as a score
RatioUpToOne(a, b) == Min(Unit, Frac(Unit, a, b))

\* _normalize_bid
normalize_bid(bid_amount) ==
    IF max_bid <= 0 THEN 0 ELSE RatioUpToOne(bid_amount, max_bid)

\* _get_ctr_factor
get_ctr_factor(ad) ==
    IF baseline_ctr <= 0 THEN 0
    ELSE RatioUpToOne(GetOr(GetOr(ad, "performance", <<>>), "ctr", 0), baseline_ctr)

\* _get_budget_factor without the clamp to [0,1]
get_budget_factorMutant(ad) ==
    IF GetOr(ad, "daily_budget", 0) <= 0 THEN 0
    ELSE Frac(Unit, ad.daily_budget - GetOr(ad, "spent_today", 0), ad.daily_budget)

\* _get_budget_factor
get_budget_factor(ad) ==
    IF GetOr(ad, "daily_budget", 0) <= 0 THEN 0
    ELSE Max(0, Min(Unit, Frac(Unit, ad.daily_budget - GetOr(ad, "spent_today", 0),
                                ad.daily_budget)))

\* the part of the targeting factor the interests give
interest_match(target_audience, user_context) ==
    IF /\ "interests" \in DOMAIN target_audience
       /\ "interests" \in DOMAIN user_context
       /\ target_audience.interests # {}
       /\ user_context.interests # {}
    THEN Frac(Frac(Unit, Cardinality(target_audience.interests \cap user_context.interests),
                   Cardinality(target_audience.interests)), 1, 2)
    ELSE 0

\* the part of the targeting factor the age range gives
age_match(ad_demographics, user_demographics) ==
    IF /\ "age_min" \in DOMAIN ad_demographics
       /\ "age_max" \in DOMAIN ad_demographics
       /\ "age" \in DOMAIN user_demographics
       /\ ad_demographics.age_min <= user_demographics.age
       /\ user_demographics.age <= ad_demographics.age_max
    THEN Unit \div 4
    ELSE 0

\* the part of the targeting factor the location gives
location_match(ad_demographics, user_demographics) ==
    IF /\ "location" \in DOMAIN ad_demographics
       /\ "location" \in DOMAIN user_demographics
       /\ ad_demographics.location = user_demographics.location
    THEN Unit \div 4
    ELSE 0

\* the part of the targeting factor the demographics give
demographics_match(target_audience, user_context) ==
    IF "demographics" \in DOMAIN target_audience /\ "demographics" \in DOMAIN user_context
    THEN age_match(target_audience.demographics, user_context.demographics)
         + location_match(target_audience.demographics, user_context.demographics)
    ELSE 0

\* _get_targeting_factor; an empty user_context is <<>>
get_targeting_factor(ad, user_context) ==
    IF user_context = <<>> \/ "target_audience" \notin DOMAIN ad THEN Unit \div 2
    ELSE Min(Unit, interest_match(ad.target_audience, user_context)
                   + demographics_match(ad.target_audience, user_context))

\* the ranking factors of one matched ad
ranking_factors(ad, relevance_score, user_context) ==
    [relevance |-> relevance_score,
     bid |-> normalize_bid(GetOr(ad, "bid_amount", 0)),
     ctr |-> get_ctr_factor(ad),
     budget |-> get_budget_factor(ad),
     targeting |-> get_targeting_factor(ad, user_context)]

\* combined_score: the weighted sum of the factors
combined_score(factors) ==
    (weights.relevance * factors.relevance + weights.bid * factors.bid
     + weights.ctr * factors.ctr + weights.budget * factors.budget
     + weights.targeting * factors.targeting) \div 100

\* what random.uniform(0, 0.01) may return, in ten-thousandths
Jitters == {0, 100}

\* final_score with a jitter ten times as large
final_scoreMutant(combined, jitter) == combined + Frac(combined, jitter, 1000)

\* final_score = combined_score + random.uniform(0, 0.01) * combined_score
final_score(combined, jitter) == combined + Frac(combined, jitter, 10000)

\* the entry rank_ads appends for one matched ad (processing_time_ms, the
\* time spent so far, is left out)
ranked_entry(match, user_context, jitter) ==
    [ad |-> match.ad,
     relevance_score |-> match.relevance_score,
     final_score |-> final_score(combined_score(ranking_factors(match.ad, match.relevance_score,
                                                                 user_context)), jitter),
     ranking_factors |-> ranking_factors(match.ad, match.relevance_score, user_context)]

\* for match in matched_ads: the entries in the order of the input
ranked_entries(matched_ads, user_context, jitters) ==
    [i \in 1..Len(matched_ads) |-> ranked_entry(matched_ads[i], user_context, jitters[i])]

\* How many entries of a list sorted by final_score, highest first, stay in
\* front of a new entry: those whose final_score is not lower
RECURSIVE InFrontMutant(_, _, _)
InFrontMutant(sorted, entry, k) ==
    IF k < Len(sorted) /\ sorted[k + 1].final_score > entry.final_score
    THEN InFrontMutant(sorted, entry, k + 1)
    ELSE k

RECURSIVE InFront(_, _, _)
InFront(sorted, entry, k) ==
    IF k < Len(sorted) /\ sorted[k + 1].final_score >= entry.final_score
    THEN InFront(sorted, entry, k + 1)
    ELSE k

\* ranked_ads.sort(key=final_score, reverse=True): list.sort is stable, also
\* with reverse=True, so an entry goes behind the entries of equal final_score
\* that were in front of it
RECURSIVE sort_by_final_score(_, _, _)
sort_by_final_score(entries, k, sorted) ==
    IF k > Len(entries) THEN sorted
    ELSE sort_by_final_score(entries, k + 1,
            SubSeq(sorted, 1, InFront(sorted, entries[k], 0))
            \o <<entries[k]>>
            \o SubSeq(sorted, InFront(sorted, entries[k], 0) + 1, Len(sorted)))

\* rank_ads(matched_ads, user_context); user_context None becomes {}
rank_ads(matched_ads, user_context, jitters) ==
    IF Len(matched_ads) = 0 THEN <<>>
    ELSE sort_by_final_score(ranked_entries(matched_ads, user_context, jitters), 1, <<>>)

-----------------------------------------------------------------------------
(* The callers of RankingEngine.rank_ads *)

RankDesk ==
    [id |-> "rank_desk", bid_amount |-> 250, daily_budget |-> 10000, spent_today |-> 2000,
     performance |-> [ctr |-> 100],
     target_audience |-> [interests |-> {"diy", "reading"},
                          demographics |-> [age_min |-> 25, age_max |-> 45,
                                            location |-> "us"]]]

\* an ad that scores as RankDesk does
RankLamp == [RankDesk EXCEPT !.id = "rank_lamp"]

\* the daily budget is spent
RankSpent ==
    [id |-> "rank_spent", bid_amount |-> 500, daily_budget |-> 10000, spent_today |-> 10000,
     performance |-> [ctr |-> 300]]

\* more than the daily budget is spent
RankOverspent ==
    [id |-> "rank_overspent", bid_amount |-> 100, daily_budget |-> 10000,
     spent_today |-> 15000, performance |-> [ctr |-> 50],
     target_audience |-> [interests |-> {"cooking"}]]

\* no daily budget
RankNoBudget == [id |-> "rank_no_budget", bid_amount |-> 250]

Matched(ad, hundredths) == [ad |-> ad, relevance_score |-> Frac(Unit, hundredths, 100)]

\* the matched_ads the callers pass
MatchedLists ==
    { <<>>,
      <<Matched(RankDesk, 90), Matched(RankLamp, 90)>>,
      <<Matched(RankLamp, 90), Matched(RankDesk, 90)>>,
      <<Matched(RankDesk, 50), Matched(RankSpent, 90), Matched(RankLamp, 50)>>,
      <<Matched(RankNoBudget, 50), Matched(RankDesk, 90)>>,
      <<Matched(RankOverspent, 90), Matched(RankDesk, 50), Matched(RankDesk, 50)>>,
      <<Matched(RankDesk, 50), Matched(RankDesk, 90), Matched(RankLamp, 90)>> }

\* the user_context the callers pass; <<>> is None or {}
UserContexts ==
    { <<>>,
      [interests |-> {"diy", "home improvement"},
       demographics |-> [age |-> 35, location |-> "us"]] }

NoRanking ==
    [called |-> FALSE, matched_ads |-> <<>>, user_context |-> <<>>, jitters |-> <<>>,
     ranked_ads |-> <<>>]

IdleRanking ==
    /\ ranking = NoRanking
    /\ nrankings = 0

\* RankingEngine.rank_ads; jitters are the values random.uniform returns
RankAds(matched_ads, user_context, jitters) ==
    /\ component = "RankingEngine"
    /\ nrankings < MaxRankings
    /\ nrankings' = nrankings + 1
    /\ ranking' = [called |-> TRUE, matched_ads |-> matched_ads,
                   user_context |-> user_context, jitters |-> jitters,
                   ranked_ads |-> rank_ads(matched_ads, user_context, jitters)]
    /\ UNCHANGED component

NextRanking ==
    \E matched_ads \in MatchedLists, user_context \in UserContexts :
        \E jitters \in [1..Len(matched_ads) -> Jitters] :
            RankAds(matched_ads, user_context, jitters)

-----------------------------------------------------------------------------
(* MetricsCollector: the singleton and its construction by several threads *)

\* The threads that call MetricsCollector()
Threads == {"t1", "t2", "t3"}

NoInitialisations == [marked |-> 0, registries |-> 0, servers |-> 0, tables |-> 0, trackers |-> 0]

IdleMetrics ==
    /\ metrics_collector_instance = "None"
    /\ needs_init = FALSE
    /\ registry = FALSE
    /\ instance_lock = "free"
    /\ constructing = <<>>
    /\ initialisations = NoInitialisations

\* The module has been imported; no thread has called MetricsCollector() yet
InitMetrics ==
    /\ metrics_collector_instance = "None"
    /\ needs_init = FALSE
    /\ registry = FALSE
    /\ instance_lock = "free"
    /\ constructing = [t \in Threads |-> "call"]
    /\ initialisations = NoInitialisations

\* thread t moves on to step
Goto(t, step) == constructing' = [constructing EXCEPT ![t] = step]

\* initialisations with one more run of part
Ran(part) == [initialisations EXCEPT ![part] = @ + 1]

\* __new__: with _instance_lock (the lock is acquired)
AcquireInstanceLock(t) ==
    /\ component = "MetricsCollector"
    /\ constructing[t] = "call"
    /\ instance_lock = "free"
    /\ instance_lock' = t
    /\ Goto(t, "new")
    /\ UNCHANGED <<component, metrics_collector_instance, needs_init, registry, initialisations>>

\* __new__: the body of the with block; the lock is released on return
New(t) ==
    /\ component = "MetricsCollector"
    /\ constructing[t] = "new"
    /\ instance_lock = t
    /\ IF metrics_collector_instance = "None"
       THEN /\ metrics_collector_instance' = "instance"
            /\ needs_init' = TRUE
       ELSE UNCHANGED <<metrics_collector_instance, needs_init>>
    /\ instance_lock' = "free"
    /\ Goto(t, "init")
    /\ UNCHANGED <<component, registry, initialisations>>

\* __init__: if not hasattr(self, '_needs_init') or not self._needs_init: return
CheckNeedsInit(t) ==
    /\ component = "MetricsCollector"
    /\ constructing[t] = "init"
    /\ Goto(t, IF needs_init THEN "mark" ELSE "done")
    /\ UNCHANGED <<component, metrics_collector_instance, needs_init, registry, instance_lock,
                   initialisations>>

\* __init__: self._needs_init = False
MarkInitialized(t) ==
    /\ component = "MetricsCollector"
    /\ constructing[t] = "mark"
    /\ needs_init' = FALSE
    /\ initialisations' = Ran("marked")
    /\ Goto(t, "registry")
    /\ UNCHANGED <<component, metrics_collector_instance, registry, instance_lock>>

\* __init__: if not hasattr(self, 'registry')
CheckRegistry(t) ==
    /\ component = "MetricsCollector"
    /\ constructing[t] = "registry"
    /\ Goto(t, IF registry THEN "server" ELSE "create_registry")
    /\ UNCHANGED <<component, metrics_collector_instance, needs_init, registry, instance_lock,
                   initialisations>>

\* __init__: self.registry = CollectorRegistry() and the metrics registered in it
CreateRegistry(t) ==
    /\ component = "MetricsCollector"
    /\ constructing[t] = "create_registry"
    /\ registry' = TRUE
    /\ initialisations' = Ran("registries")
    /\ Goto(t, "server")
    /\ UNCHANGED <<component, metrics_collector_instance, needs_init, instance_lock>>

\* __init__: start_http_server(prometheus_port, registry=self.registry); a
\* failure is logged and the body goes on
StartServer(t) ==
    /\ component = "MetricsCollector"
    /\ constructing[t] = "server"
    /\ initialisations' = Ran("servers")
    /\ Goto(t, "tables")
    /\ UNCHANGED <<component, metrics_collector_instance, needs_init, registry, instance_lock>>

\* __init__: self._get_db_connection(create_tables=True)
CreateTables(t) ==
    /\ component = "MetricsCollector"
    /\ constructing[t] = "tables"
    /\ initialisations' = Ran("tables")
    /\ Goto(t, "tracking")
    /\ UNCHANGED <<component, metrics_collector_instance, needs_init, registry, instance_lock>>

\* __init__: self._start_system_metrics_tracking()
StartSystemMetricsTracking(t) ==
    /\ component = "MetricsCollector"
    /\ constructing[t] = "tracking"
    /\ initialisations' = Ran("trackers")
    /\ Goto(t, "done")
    /\ UNCHANGED <<component, metrics_collector_instance, needs_init, registry, instance_lock>>

NextMetrics ==
    \E t \in Threads :
        \/ AcquireInstanceLock(t)
        \/ New(t)
        \/ CheckNeedsInit(t)
        \/ MarkInitialized(t)
        \/ CheckRegistry(t)
        \/ CreateRegistry(t)
        \/ StartServer(t)
        \/ CreateTables(t)
        \/ StartSystemMetricsTracking(t)

-----------------------------------------------------------------------------
(* AdDeliveryManager: inventories and keyword mappings *)

\* The ads __init__ falls back to when ads.json cannot be loaded
FallbackAds ==
    << [id |-> "default_ad_1", title |-> "Default Bathroom Ad",
        description |-> "This is a fallback ad for bathroom-related queries.",
        call_to_action |-> "Learn More", url |-> "#", category |-> "bathroom",
        keywords |-> <<"bathroom", "faucet", "shower", "toilet">>],
       [id |-> "default_ad_2", title |-> "Default Kitchen Ad",
        description |-> "This is a fallback ad for kitchen-related queries.",
        call_to_action |-> "Shop Now", url |-> "#", category |-> "kitchen",
        keywords |-> <<"kitchen", "sink", "faucet", "appliance">>] >>

AdUltraboost ==
    [id |-> "ad_101", title |-> "Adidas Ultraboost",
     description |-> "Responsive running shoes for every runner",
     keywords |-> <<"running shoes", "sneakers">>, categories |-> <<"sports">>]

AdMacBook ==
    [id |-> "ad_103", title |-> "MacBook Pro",
     description |-> "The best laptop for work",
     keywords |-> <<"laptop", "macbook">>, categories |-> <<"technology">>]

AdNike ==
    [id |-> "ad_nike", title |-> "Nike ZoomX Invincible",
     description |-> "Cushioned shoes for long runs",
     keywords |-> <<"running shoes", "nike">>, categories |-> <<"sports">>]

\* The inventories (ads.json, or the fallback) of the model
DeliveryInventories ==
    { FallbackAds,
      <<AdUltraboost, AdMacBook>>,
      <<AdMacBook, AdNike>> }

\* every ad of the inventories, by id
DeliveryAdPool ==
    UNION {{inv[i] : i \in 1..Len(inv)} : inv \in DeliveryInventories}

\* self.keyword_mappings: the variations of each keyword
keyword_mappings ==
    ("technology" :>
          {"tech", "gadget", "electronic", "device", "computer", "digital",
           "laptop", "notebook", "pc", "desktop", "smartphone", "phone",
           "mobile"})
    @@ ("sports" :>
          {"sport", "athletic", "fitness", "exercise", "workout", "running",
           "gym", "marathon", "jogging", "run", "training", "runner",
           "sneaker", "footwear", "shoes"})
    @@ ("education" :>
          {"learning", "course", "study", "class", "training", "tutorial",
           "lesson", "education", "teach", "skill", "online course",
           "certificate", "degree", "professional development"})
    @@ ("books" :>
          {"book", "read", "reading", "literature", "novel", "audiobook",
           "ebook", "story", "author", "fiction", "nonfiction", "listen",
           "podcast", "storytelling"})
    @@ ("fashion" :>
          {"clothing", "clothes", "apparel", "wear", "outfit", "dress",
           "shirt", "pants", "fashion", "style", "designer", "accessory"})
    @@ ("travel" :>
          {"trip", "vacation", "flight", "hotel", "booking", "destination",
           "travel", "journey", "tourism", "holiday", "adventure"})
    @@ ("home" :>
          {"house", "apartment", "decor", "furniture", "interior", "home",
           "living", "residence", "property", "real estate", "backyard",
           "outdoor", "garden"})
    @@ ("entertainment" :>
          {"movie", "film", "show", "stream", "watch", "listen", "music",
           "entertainment", "media", "video", "game", "play", "fun"})
    @@ ("running shoes" :>
          {"sneakers", "athletic shoes", "sports shoes", "trainers",
           "running footwear", "jogging shoes", "marathon shoes", "nike",
           "adidas", "brooks", "asics", "new balance", "hoka",
           "running gear", "cushioning"})
    @@ ("nike" :>
          {"nike shoes", "nike footwear", "nike sneakers", "nike run",
           "nike running", "nike zoomx", "zoomx", "invincible",
           "nike invincible", "nike trainers"})
    @@ ("macbook" :>
          {"mac", "apple laptop", "macbook pro", "macbook air",
           "apple computer", "m3 chip", "mac os", "macos", "apple"})
    @@ ("smartphone" :>
          {"phone", "mobile", "cell phone", "iphone", "android", "galaxy",
           "samsung", "pixel", "mobile device", "s25", "s25 ultra"})
    @@ ("online courses" :>
          {"coursera", "online learning", "e-learning", "distance learning",
           "mooc", "online education", "certificate program",
           "data science course", "programming class", "python course"})
    @@ ("data science" :>
          {"machine learning", "ai", "artificial intelligence", "big data",
           "data analysis", "statistics", "python", "r programming",
           "analytics", "data visualization"})
    @@ ("audiobooks" :>
          {"audible", "audio books", "listening to books", "book narration",
           "audio stories", "audible plus", "audible premium",
           "audio content", "spoken word"})
    @@ ("kitchen" :>
          {"kitchn", "kichen", "kitchens", "cooking", "culinary", "cook"})
    @@ ("faucet" :>
          {"facuet", "faucets", "tap", "taps", "water tap", "sink tap"})
    @@ ("sink" :>
          {"sinks", "basin", "washbasin", "wash basin"})
    @@ ("refrigerator" :>
          {"fridge", "refridgerator", "fridges", "cooling", "cooler"})
    @@ ("stove" :>
          {"cooktop", "range", "oven", "cooking surface"})
    @@ ("dishwasher" :>
          {"dish washer", "dishwashing", "dish washing"})
    @@ ("microwave" :>
          {"microwave oven", "micro wave"})
    @@ ("cabinets" :>
          {"cabinet", "cupboard", "cupboards", "storage"})
    @@ ("countertop" :>
          {"counter top", "counter", "counters", "worktop"})
    @@ ("bathroom" :>
          {"bath room", "bathrom", "restroom", "washroom", "lavatory"})
    @@ ("toilet" :>
          {"toilets", "commode", "lavatory", "water closet", "wc"})
    @@ ("shower" :>
          {"showers", "shower head", "shower stall", "shower cabin"})
    @@ ("bathtub" :>
          {"bath tub", "bath", "tub", "soaking tub"})
    @@ ("vanity" :>
          {"vanities", "sink cabinet", "bathroom cabinet"})
    @@ ("mirror" :>
          {"mirrors", "bathroom mirror", "looking glass"})
    @@ ("tile" :>
          {"tiles", "bathroom tiles", "floor tiles", "wall tiles"})
    @@ ("towel" :>
          {"towels", "towel bar", "towel rack", "hand towel"})

-----------------------------------------------------------------------------
(* AdDeliveryManager: query expansion *)

\* any(w in text for w in words)
ContainsAny(text, words) == \E w \in words : Contains(text, w)

\* the variations of the "running shoes" keyword
RunningShoesTerms == keyword_mappings["running shoes"]

\* what one word of the query adds: for keyword, variations in the mappings
TermExpansion(term) ==
    UNION { IF term \in keyword_mappings[k] THEN {k}
            ELSE IF Contains(k, term) THEN {k}
            ELSE IF Contains(term, k)
                    \/ \E v \in keyword_mappings[k] : Contains(term, v)
                 THEN {k} \cup keyword_mappings[k]
            ELSE IF k = "running shoes"
                    /\ (Contains(term, "run") \/ Contains(term, "shoe"))
                 THEN {k} \cup keyword_mappings[k]
            ELSE {} : k \in DOMAIN keyword_mappings }

\* _expand_query_with_mappings: the set expanded_terms.  The method returns
\* " ".join(expanded_terms), the terms in the set's iteration order.
expand_query_with_mappings(query) ==
    LET words == Range(Split(query))
    IN  words
        \cup UNION {{k} \cup keyword_mappings[k] :
                        k \in {m \in DOMAIN keyword_mappings : Contains(query, m)}}
        \cup (IF Contains(query, "running") /\ Contains(query, "shoes")
              THEN {"running shoes"} \cup RunningShoesTerms ELSE {})
        \cup (IF Contains(query, "running")
              THEN {"running"} \cup RunningShoesTerms ELSE {})
        \cup (IF Contains(query, "shoes")
              THEN {"shoes"} \cup RunningShoesTerms ELSE {})
        \cup (IF Contains(query, "nike")
              THEN {"running shoes"} \cup RunningShoesTerms ELSE {})
        \cup UNION {TermExpansion(term) : term \in words}
        \cup {k \in DOMAIN keyword_mappings : Contains(k, " ") /\ Contains(query, k)}
        \cup UNION {{k, v} : <<k, v>> \in
                        {p \in UNION {{<<m, w>> : w \in keyword_mappings[m]} :
                                          m \in DOMAIN keyword_mappings} :
                            Contains(p[2], " ") /\ Contains(query, p[2])}}

\* needle in " ".join(terms).  A needle without a blank is in the joined text
\* iff it is in one of the terms.  A needle with a blank could also span two
\* neighbouring terms of the join; the inventories of the model have no
\* multi-word keyword or category that two terms of an expansion can form
\* unless it is a term itself.
InJoined(terms, needle) == \E t \in terms : Contains(t, needle)

\* " ".join(terms).lower().split() as a set
JoinedWords(terms) == UNION {{Lower(w) : w \in Range(Split(t))} : t \in terms}

-----------------------------------------------------------------------------
(* difflib.SequenceMatcher(None, a, b).ratio() *)

\* the length of the longest common prefix of a[i..ahi] and b[j..bhi]
RECURSIVE CommonPrefix(_, _, _, _, _, _)
CommonPrefix(a, i, ahi, b, j, bhi) ==
    IF i > ahi \/ j > bhi THEN 0
    ELSE IF SubSeq(a, i, i) # SubSeq(b, j, j) THEN 0
    ELSE 1 + CommonPrefix(a, i + 1, ahi, b, j + 1, bhi)

\* the total size of the matching blocks of a[alo..ahi] and b[blo..bhi]: the
\* longest common block (the earliest in a, then the earliest in b), then the
\* blocks to its left and to its right
RECURSIVE MatchingSize(_, _, _, _, _, _)
MatchingSize(a, alo, ahi, b, blo, bhi) ==
    IF alo > ahi \/ blo > bhi THEN 0
    ELSE LET size == [p \in (alo..ahi) \X (blo..bhi) |->
                         CommonPrefix(a, p[1], ahi, b, p[2], bhi)]
             k == CHOOSE n \in {size[p] : p \in DOMAIN size} :
                     \A p \in DOMAIN size : size[p] <= n
             best == CHOOSE p \in DOMAIN size :
                        /\ size[p] = k
                        /\ \A r \in DOMAIN size :
                              size[r] = k =>
                                 \/ p[1] < r[1]
                                 \/ p[1] = r[1] /\ p[2] <= r[2]
         IN  IF k = 0 THEN 0
             ELSE k + MatchingSize(a, alo, best[1] - 1, b, blo, best[2] - 1)
                    + MatchingSize(a, best[1] + k, ahi, b, best[2] + k, bhi)

\* ratio() = 2.0 * matches / (len(a) + len(b)), as the pair <<matches, total>>
sequence_matches(a, b) ==
    [matches |-> MatchingSize(a, 1, Len(a), b, 1, Len(b)), total |-> Len(a) + Len(b)]

-----------------------------------------------------------------------------
(* AdDeliveryManager: the four sub-scores *)

RECURSIVE SumOf(_, _)
\* sum(f[x] for x in S)
SumOf(f, S) ==
    IF S = {} THEN 0
    ELSE LET x == CHOOSE e \in S : TRUE
         IN  f[x] + SumOf(f, S \ {x})

\* the largest element of a non-empty set of numbers
MaxOf(S) == CHOOSE n \in S : \A m \in S : m <= n

\* What the users of the model type
DeliveryQueries == {"hello", "Best laptop", "running shoes"}

\* the last messages of a conversation that get_relevant_ad folds into the query
ContextWindow == 3

\* the contents of the last ContextWindow messages a conversation can hold
ContextWindows == UNION {[1..n -> DeliveryQueries] : n \in 1..ContextWindow}

RECURSIVE JoinWords(_, _)
\* " ".join(seq[i:])
JoinWords(seq, i) ==
    IF i > Len(seq) THEN ""
    ELSE IF i = Len(seq) THEN seq[i]
    ELSE seq[i] \o " " \o JoinWords(seq, i + 1)

\* SequenceMatcher(None, a, b).ratio()
Ratio(a, b) ==
    LET m == sequence_matches(a, b)
    IN  IF m.total = 0 THEN Unit ELSE (2 * m.matches * Unit) \div m.total

\* ratio() > 0.75, on the exact fraction
RatioAboveFuzzyThreshold(a, b) ==
    LET m == sequence_matches(a, b)
    IN  IF m.total = 0 THEN TRUE ELSE 8 * m.matches > 3 * m.total

\* _calculate_keyword_match on the terms of the expanded query
calculate_keyword_match(expanded_terms, keywords) ==
    IF Len(keywords) = 0 THEN 0
    ELSE LET query_terms == JoinedWords(expanded_terms)
             keyword_terms == {Lower(kw) : kw \in Range(keywords)}
             matches ==
                 (query_terms \cap keyword_terms)
                 \cup {kw \in keyword_terms :
                          Contains(kw, " ")
                          /\ InJoined({Lower(t) : t \in expanded_terms}, kw)}
             pairs == (query_terms \ matches) \X keyword_terms
             above == [p \in pairs |->
                         IF RatioAboveFuzzyThreshold(p[1], p[2])
                         THEN Ratio(p[1], p[2]) - Frac(Unit, 75, 100)
                         ELSE 0]
             longest == Max(Cardinality(query_terms), Cardinality(keyword_terms))
             exact_match_score == (Cardinality(matches) * Unit) \div longest
             fuzzy_match_score == SumOf(above, pairs) \div longest
         IN  exact_match_score + Frac(fuzzy_match_score, 6, 10)

\* the score of one category that is not in the query
CategoryScore(query_terms, category) ==
    LET category_terms == Split(category)
        matches == query_terms \cap Range(category_terms)
        score == IF matches # {}
                 THEN (Cardinality(matches) * Unit) \div Len(category_terms)
                 ELSE 0
        max_similarity ==
            MaxOf({0} \cup {Ratio(q, c) : q \in query_terms, c \in Range(category_terms)})
    IN  Max(score, Frac(max_similarity, 7, 10))

\* _calculate_category_match on the terms of the expanded query
calculate_category_match(expanded_terms, categories) ==
    IF Len(categories) = 0 THEN 0
    ELSE IF \E c \in 1..Len(categories) : InJoined(expanded_terms, Lower(categories[c]))
         THEN Unit
         ELSE MaxOf({0} \cup {CategoryScore(JoinedWords(expanded_terms), Lower(categories[c])) :
                                 c \in 1..Len(categories)})

SemanticStopwords ==
    {"the", "and", "to", "a", "of", "for", "in", "is", "that", "on", "with"}

ImportantWords ==
    {"buy", "purchase", "get", "need", "want", "looking", "search", "find",
     "recommend", "best", "top", "good", "great", "review"}

\* _calculate_semantic_relevance
calculate_semantic_relevance(query, ad) ==
    LET ad_text == Lower(GetOr(ad, "title", "") \o " " \o GetOr(ad, "description", ""))
        query_words == Range(Split(Lower(query))) \ SemanticStopwords
        ad_words == Range(Split(ad_text)) \ SemanticStopwords
        overlap == query_words \cap ad_words
        similarity ==
            (Cardinality(overlap) * Unit)
            \div (Cardinality(query_words) + Cardinality(ad_words) - Cardinality(overlap))
        intent_words == query_words \cap ImportantWords
        intent_boost ==
            IF intent_words # {}
            THEN (2 * Cardinality(intent_words) * Unit) \div (10 * Cardinality(query_words))
            ELSE 0
    IN  IF query_words = {} \/ ad_words = {} THEN 0
        ELSE Min(Unit, similarity + intent_boost)

Brands ==
    {"nike", "adidas", "asics", "brooks", "new balance", "hoka", "samsung", "apple",
     "macbook", "audible", "coursera"}

ProductTypes ==
    {"running shoes", "running shoe", "shoes", "phone", "smartphone", "laptop",
     "audiobook", "course"}

IntentSignals ==
    [running |-> {"run", "running", "jog", "jogging", "marathon"},
     buying |-> {"buy", "purchase", "shop", "shopping", "looking for", "want", "need",
                 "searching for"},
     learning |-> {"learn", "study", "course", "education", "training", "skills"},
     listening |-> {"listen", "audio", "hear", "audiobook", "podcast"}]

\* _calculate_direct_term_match
calculate_direct_term_match(query, ad) ==
    LET ad_title == Lower(GetOr(ad, "title", ""))
        ad_keywords == {Lower(kw) : kw \in Range(GetOr(ad, "keywords", <<>>))}
        ad_categories == {Lower(c) : c \in Range(GetOr(ad, "categories", <<>>))}
        brand == IF \E b \in Brands : Contains(query, b) /\ Contains(ad_title, b)
                 THEN 85 ELSE 0
        product ==
            IF \E p \in ProductTypes :
                  /\ Contains(query, p)
                  /\ (Contains(ad_title, p) \/ \E kw \in ad_keywords : Contains(kw, p))
            THEN 75 ELSE 0
        intents ==
            50 * Cardinality({intent \in DOMAIN IntentSignals :
                  /\ ContainsAny(query, IntentSignals[intent])
                  /\ \/ \E c \in ad_categories : Contains(c, intent)
                     \/ \E kw \in ad_keywords : Contains(kw, intent)})
    IN  Min(Frac(Unit, brand + product + intents, 100), Unit)

\* _get_matched_keywords / _get_matched_categories
get_matched_terms(expanded_terms, terms) ==
    SelectSeq(terms, LAMBDA term :
        \/ InJoined(expanded_terms, Lower(term))
        \/ \E w \in Range(Split(Lower(term))) : w \in JoinedWords(expanded_terms))

\* the four sub-scores of an ad for a query, its search text and the terms
\* of the expanded search text
sub_scores(query, search_text, expanded_terms, ad) ==
    [keyword_score |->
        calculate_keyword_match(expanded_terms, GetOr(ad, "keywords", <<>>)),
     category_score |->
        calculate_category_match(expanded_terms, GetOr(ad, "categories", <<>>)),
     semantic_score |-> calculate_semantic_relevance(search_text, ad),
     direct_term_score |-> calculate_direct_term_match(query, ad),
     matched_keywords |-> get_matched_terms(expanded_terms, GetOr(ad, "keywords", <<>>)),
     matched_categories |-> get_matched_terms(expanded_terms, GetOr(ad, "categories", <<>>))]

\* the pairs <<query, search text>> of the model: the query alone, or the
\* query followed by the last messages of its conversation
SearchPairs ==
    {<<Lower(q), Lower(q)>> : q \in DeliveryQueries}
    \cup {<<Lower(w[Len(w)]), Lower(w[Len(w)]) \o " " \o JoinWords(w, 1)>> :
             w \in ContextWindows}

\* the sub-scores of the ads of the model for its search pairs, evaluated once
\* (@@ makes the function an explicit table)
SubScoresOfPool ==
    [k \in SearchPairs \X DeliveryAdPool |->
        sub_scores(k[1][1], k[1][2], expand_query_with_mappings(k[1][2]), k[2])] @@ <<>>

\* an ad without the match_factors a previous call attached
WithoutMatchFactors(ad) == [k \in DOMAIN ad \ {"match_factors"} |-> ad[k]]

\* the sub-scores of an ad: no sub-score reads match_factors
SubScores(query, search_text, ad) ==
    SubScoresOfPool[<<<<query, search_text>>, WithoutMatchFactors(ad)>>]

-----------------------------------------------------------------------------
(* AdDeliveryManager.get_relevant_ad *)

\* the index of the first ad whose title satisfies InTitle, 0 when none does
FirstByTitle(ads_, InTitle(_)) ==
    LET hits == {i \in 1..Len(ads_) : InTitle(Lower(GetOr(ads_[i], "title", "")))}
    IN  IF hits = {} THEN 0 ELSE CHOOSE i \in hits : \A j \in hits : i <= j

IsNikeTitle(title) == Contains(title, "nike")
IsMacBookTitle(title) ==
    Contains(title, "macbook") \/ (Contains(title, "mac") /\ Contains(title, "book"))

\* ad.get("id"); "" stands for None
IdOf(ad) == GetOr(ad, "id", "")

\* the id of the ad to boost for the query, "" when there is none
boosted_ad_id_of(ads_, query) ==
    LET is_running_shoes_query == ContainsAny(query, {"running", "run", "shoes", "nike"})
        is_laptop_query == ContainsAny(query, {"laptop", "macbook", "computer", "mac"})
        nike == FirstByTitle(ads_, IsNikeTitle)
        macbook == FirstByTitle(ads_, IsMacBookTitle)
        found_nike == IF nike # 0 THEN IdOf(ads_[nike]) ELSE ""
        after_running ==
            IF is_running_shoes_query
            THEN (IF found_nike = "" THEN "ad_101" ELSE found_nike)
            ELSE ""
        found_macbook == IF macbook # 0 THEN IdOf(ads_[macbook]) ELSE after_running
    IN  IF is_laptop_query
        THEN (IF found_macbook = "" THEN "ad_103" ELSE found_macbook)
        ELSE after_running

\* the boost of an ad, in hundredths
boost_of(ad, query, boosted_ad_id) ==
    LET keywords == {Lower(kw) : kw \in Range(GetOr(ad, "keywords", <<>>))}
        title == Lower(GetOr(ad, "title", ""))
    IN  (IF boosted_ad_id # "" /\ IdOf(ad) = boosted_ad_id THEN 70 ELSE 0)
        + (IF Contains(query, "nike") /\ Contains(title, "nike") THEN 50 ELSE 0)
        + (IF /\ ContainsAny(query, {"running shoes", "running shoe", "running", "shoes"})
              /\ \E kw \in keywords : Contains(kw, "run") \/ Contains(kw, "shoe")
           THEN 40 ELSE 0)
        + (IF /\ ContainsAny(query, {"laptop", "computer", "macbook", "notebook", "mac"})
              /\ \E kw \in keywords :
                    Contains(kw, "laptop") \/ Contains(kw, "macbook") \/ Contains(kw, "computer")
           THEN 40 ELSE 0)

\* round(x, 3), in thousandths
Round3(x) == (x * 1000 + Unit \div 2) \div Unit

\* total_score: the weighted sub-scores plus the boost
WeightedTotal(s, boost) ==
    Frac(s.keyword_score, 35, 100) + Frac(s.category_score, 25, 100)
    + Frac(s.semantic_score, 25, 100) + Frac(s.direct_term_score, 15, 100)
    + Frac(Unit, boost, 100)

\* current_match_factors of an ad
match_factors_of(ad, s, total_score) ==
    [ad_id |-> GetOr(ad, "id", "unknown"),
     ad_title |-> GetOr(ad, "title", "Unknown"),
     keyword_score |-> Round3(s.keyword_score),
     category_score |-> Round3(s.category_score),
     semantic_score |-> Round3(s.semantic_score),
     direct_term_score |-> Round3(s.direct_term_score),
     total_score |-> Round3(total_score),
     matched_keywords |-> s.matched_keywords,
     matched_categories |-> s.matched_categories]

\* one pass of the scoring loop: the ad's total_score and match factors
score_ad(ad, s, boost) ==
    [total_score |-> WeightedTotal(s, boost),
     match_factors |-> match_factors_of(ad, s, WeightedTotal(s, boost))]

\* the lowest total score get_relevant_ad returns an ad for, in hundredths
DeliveryThreshold == 1

\* best_match["match_factors"] = match_factors
AttachMatchFactors(ad, factors) ==
    [k \in DOMAIN ad \cup {"match_factors"} |->
        IF k = "match_factors" THEN factors ELSE ad[k]]

\* self.conversation_history after get_relevant_ad has stored the history
store_history(history, conversation_id, conversation_history) ==
    IF conversation_id # "" /\ Len(conversation_history) > 0
    THEN [c \in DOMAIN history \cup {conversation_id} |->
            IF c = conversation_id THEN conversation_history ELSE history[c]]
    ELSE history

\* the contents of the last messages of the conversation
context_of(history, conversation_id) ==
    IF conversation_id # "" /\ conversation_id \in DOMAIN history
    THEN JoinContents(LastN(history[conversation_id], ContextWindow), 1)
    ELSE ""

\* search_text: the query, followed by the context when there is one
search_text_of(query, context) ==
    IF context # "" THEN query \o " " \o context ELSE query

\* the index of best_match after the loop, 0 for None: an ad replaces
\* best_match when total_score > highest_score, so it is the first ad with the
\* highest score, and no ad when no score is above 0
best_match_of(scored, highest_score) ==
    IF highest_score = 0 THEN 0
    ELSE CHOOSE i \in 1..Len(scored) :
            /\ scored[i].total_score = highest_score
            /\ \A j \in 1..(i - 1) : scored[j].total_score < highest_score

\* what get_relevant_ad does after the loop.  outcome is "ad" (result =
\* <<ad>>), "none" (it returns None) or "raised" (best_match.get raises
\* AttributeError on None)
after_loop(ads_, history, scored, highest_score, best) ==
    IF best = 0
    THEN [outcome |-> "raised", result |-> <<>>, ads |-> ads_, history |-> history,
          totals |-> [i \in 1..Len(ads_) |-> scored[i].match_factors],
          scored |-> TRUE, highest_score |-> highest_score]
    ELSE IF highest_score >= Frac(Unit, DeliveryThreshold, 100)
    THEN [outcome |-> "ad",
          result |-> <<AttachMatchFactors(ads_[best], scored[best].match_factors)>>,
          ads |-> [i \in 1..Len(ads_) |->
                     IF i = best
                     THEN AttachMatchFactors(ads_[i], scored[i].match_factors)
                     ELSE ads_[i]],
          history |-> history,
          totals |-> [i \in 1..Len(ads_) |-> scored[i].match_factors],
          scored |-> TRUE, highest_score |-> highest_score]
    ELSE [outcome |-> "none", result |-> <<>>, ads |-> ads_, history |-> history,
          totals |-> [i \in 1..Len(ads_) |-> scored[i].match_factors],
          scored |-> TRUE, highest_score |-> highest_score]

\* the loop's highest_score, then the ad it selects
select_best(ads_, history, scored, highest_score) ==
    after_loop(ads_, history, scored, highest_score, best_match_of(scored, highest_score))

\* the scoring loop over self.ads
score_ads(ads_, history, query, search_text, boosted_ad_id) ==
    select_best(ads_, history,
                [i \in 1..Len(ads_) |->
                    score_ad(ads_[i], SubScores(query, search_text, ads_[i]),
                             boost_of(ads_[i], query, boosted_ad_id))],
                MaxOf({0} \cup {WeightedTotal(SubScores(query, search_text, ads_[i]),
                                              boost_of(ads_[i], query, boosted_ad_id)) :
                                   i \in 1..Len(ads_)}))

\* get_relevant_ad once the query is lowered and the history is stored
match_query(ads_, history, query, conversation_id) ==
    score_ads(ads_, history, query,
              search_text_of(query, context_of(history, conversation_id)),
              boosted_ad_id_of(ads_, query))

\* get_relevant_ad
delivery_get_relevant_ad(ads_, history, query_, conversation_id, conversation_history) ==
    IF query_ = "" \/ Len(ads_) = 0
    THEN [outcome |-> "none", result |-> <<>>, ads |-> ads_, history |-> history,
          totals |-> <<>>, scored |-> FALSE, highest_score |-> 0]
    ELSE IF /\ ContainsAny(Lower(query_), {"running", "run", "shoes", "shoe", "nike"})
            /\ FirstByTitle(ads_, IsNikeTitle) # 0
    THEN [outcome |-> "ad", result |-> <<ads_[FirstByTitle(ads_, IsNikeTitle)]>>,
          ads |-> ads_, history |-> history, totals |-> <<>>, scored |-> FALSE,
          highest_score |-> 0]
    ELSE match_query(ads_, store_history(history, conversation_id, conversation_history),
                     Lower(query_), conversation_id)

-----------------------------------------------------------------------------
(* The callers of AdDeliveryManager.get_relevant_ad *)

\* "" calls get_relevant_ad(query); a chat passes its id as conversation_id
\* and its messages as conversation_history
DeliveryCallers == {"", "chatA"}

NoRequest ==
    [query |-> "", caller |-> "", outcome |-> "none", result |-> <<>>,
     totals |-> <<>>, scored |-> FALSE, highest_score |-> 0]

IdleDelivery ==
    /\ delivery_ads = <<>>
    /\ delivery_history = <<>>
    /\ delivery_chats = <<>>
    /\ request = NoRequest
    /\ nrequests = 0

InitDelivery ==
    /\ delivery_ads \in DeliveryInventories
    /\ delivery_history = <<>>
    /\ delivery_chats = [c \in DeliveryCallers \ {""} |-> <<>>]
    /\ request = NoRequest
    /\ nrequests = 0

\* A caller asks for the ad relevant to query
DeliveryGetRelevantAd(caller, query) ==
    /\ component = "AdDeliveryManager"
    /\ nrequests < MaxRequests
    /\ \E conversation_history \in
            {IF caller = "" THEN <<>>
             ELSE Append(delivery_chats[caller], [role |-> "user", content |-> query])} :
         \E r \in {delivery_get_relevant_ad(delivery_ads, delivery_history, query,
                                            caller, conversation_history)} :
             /\ delivery_ads' = r.ads
             /\ delivery_history' = r.history
             /\ delivery_chats' = IF caller = "" THEN delivery_chats
                                  ELSE [delivery_chats EXCEPT ![caller] = conversation_history]
             /\ request' = [query |-> query, caller |-> caller, outcome |-> r.outcome,
                            result |-> r.result, totals |-> r.totals,
                            scored |-> r.scored, highest_score |-> r.highest_score]
    /\ nrequests' = nrequests + 1
    /\ UNCHANGED component

NextDelivery ==
    \E caller \in DeliveryCallers, query \in DeliveryQueries :
        DeliveryGetRelevantAd(caller, query)

-----------------------------------------------------------------------------
(* Specifications *)

\* AdMatcher
Init == component = "AdMatcher" /\ InitMatcher /\ IdleAnalyzer /\ IdleRanking /\ IdleConfig /\ IdleReload /\ IdleUpdaters /\ IdleContext /\ IdleMetrics /\ IdleDelivery

Next == NextMatcher /\ UNCHANGED <<analyzerVars, rankingVars, configVars, reloadVars, updaterVars, contextVars, deliveryVars, metricsVars>>

Spec == Init /\ [][Next]_vars

\* ConfigDrivenAdManager
InitConfigManager ==
    component = "ConfigDrivenAdManager" /\ IdleMatcher /\ IdleAnalyzer /\ IdleRanking /\ InitConfig /\ IdleReload /\ IdleUpdaters /\ IdleContext /\ IdleMetrics /\ IdleDelivery

NextConfigManager == NextConfig /\ UNCHANGED <<matcherVars, analyzerVars, rankingVars, reloadVars, updaterVars, contextVars, deliveryVars, metricsVars>>

SpecConfig == InitConfigManager /\ [][NextConfigManager]_vars

\* AdDeliveryManager
InitDeliveryManager ==
    component = "AdDeliveryManager" /\ IdleMatcher /\ IdleAnalyzer /\ IdleRanking /\ IdleConfig /\ IdleReload /\ IdleUpdaters /\ IdleContext /\ IdleMetrics /\ InitDelivery

NextDeliveryManager == NextDelivery /\ UNCHANGED <<matcherVars, analyzerVars, rankingVars, configVars, reloadVars, updaterVars, contextVars, metricsVars>>

SpecDelivery == InitDeliveryManager /\ [][NextDeliveryManager]_vars

\* The two scorers whose score is a weighted sum: AdMatcher and
\* ConfigDrivenAdManager
InitScorers == Init \/ InitConfigManager

NextScorers == Next \/ NextConfigManager

SpecScorers == InitScorers /\ [][NextScorers]_vars


\* ConfigDrivenAdManager while its configuration is reloaded
InitReloadManager ==
    component = "ConfigDrivenAdManager" /\ IdleMatcher /\ IdleAnalyzer /\ IdleRanking /\ InitReload /\ IdleUpdaters /\ IdleContext /\ IdleMetrics /\ IdleDelivery

NextReloadManager == NextReload /\ UNCHANGED <<matcherVars, analyzerVars, rankingVars, updaterVars, contextVars, deliveryVars, metricsVars>>

SpecReload == InitReloadManager /\ [][NextReloadManager]_vars

\* ConfigDrivenAdManager with two threads updating one conversation context
InitUpdaterThreads ==
    component = "ConfigDrivenAdManager" /\ IdleMatcher /\ IdleAnalyzer /\ IdleRanking /\ InitConfig /\ IdleReload
    /\ InitUpdaters /\ IdleContext /\ IdleMetrics /\ IdleDelivery

NextUpdaterThreads ==
    NextUpdaters /\ UNCHANGED <<matcherVars, analyzerVars, rankingVars, reloadVars, contextVars, deliveryVars, metricsVars>>

SpecUpdaters == InitUpdaterThreads /\ [][NextUpdaterThreads]_vars

\* QueryAnalyzer
InitQueryAnalyzer ==
    /\ component = "QueryAnalyzer"
    /\ IdleMatcher /\ IdleRanking /\ IdleConfig /\ IdleReload /\ IdleUpdaters /\ IdleContext /\ IdleMetrics /\ IdleDelivery
    /\ analyzed = NoAnalysis
    /\ nanalyses = 0

NextQueryAnalyzer ==
    NextAnalyzer /\ UNCHANGED <<matcherVars, rankingVars, configVars, reloadVars, updaterVars, contextVars, deliveryVars, metricsVars>>

SpecAnalyzer == InitQueryAnalyzer /\ [][NextQueryAnalyzer]_vars

\* RankingEngine
InitRankingEngine ==
    /\ component = "RankingEngine"
    /\ IdleMatcher /\ IdleAnalyzer /\ IdleConfig /\ IdleReload /\ IdleUpdaters /\ IdleContext /\ IdleMetrics /\ IdleDelivery
    /\ ranking = NoRanking
    /\ nrankings = 0

NextRankingEngine ==
    NextRanking /\ UNCHANGED <<matcherVars, analyzerVars, configVars, reloadVars, updaterVars, contextVars,
                               deliveryVars, metricsVars>>

SpecRanking == InitRankingEngine /\ [][NextRankingEngine]_vars

\* ConfigDrivenAdManager with one conversation whose context is updated
InitContextManager ==
    /\ component = "ConfigDrivenAdManager"
    /\ IdleMatcher /\ IdleAnalyzer /\ IdleRanking /\ InitConfig /\ IdleReload /\ IdleUpdaters
    /\ IdleContext /\ IdleMetrics /\ IdleDelivery

NextContextManager ==
    NextContext /\ UNCHANGED <<matcherVars, analyzerVars, rankingVars, reloadVars, updaterVars,
                               deliveryVars, metricsVars>>

SpecContext == InitContextManager /\ [][NextContextManager]_vars

\* ConfigDrivenAdManager asked for ads that match by keyword and by category
InitCategoryManager ==
    /\ component = "ConfigDrivenAdManager"
    /\ IdleMatcher /\ IdleAnalyzer /\ IdleRanking /\ InitCategory /\ IdleReload /\ IdleUpdaters
    /\ IdleContext /\ IdleMetrics /\ IdleDelivery

NextCategoryManager ==
    NextCategory /\ UNCHANGED <<matcherVars, analyzerVars, rankingVars, reloadVars, updaterVars,
                                contextVars, deliveryVars, metricsVars>>

SpecCategory == InitCategoryManager /\ [][NextCategoryManager]_vars

\* Threads constructing MetricsCollector
InitMetricsCollector ==
    /\ component = "MetricsCollector"
    /\ IdleMatcher /\ IdleAnalyzer /\ IdleRanking /\ IdleConfig /\ IdleReload /\ IdleUpdaters
    /\ IdleContext /\ IdleDelivery /\ InitMetrics

NextMetricsCollector ==
    NextMetrics /\ UNCHANGED <<matcherVars, analyzerVars, rankingVars, configVars, reloadVars,
                               updaterVars, contextVars, deliveryVars>>

SpecMetrics == InitMetricsCollector /\ [][NextMetricsCollector]_vars
-----------------------------------------------------------------------------
(* Properties of the scorers *)

\* C5: every total_score that _calculate_relevance_scores produces, and the
\* combined score _calculate_relevance gives each active ad for the analysis
\* of the last call, lies in [0,1]; the match weights of the inventories are
\* in [0,1].
C5_ScoresInUnitInterval ==
    /\ \A i \in 1..Len(lookup.scored) : lookup.scored[i].total_score \in 0..Unit
    /\ \A i \in 1..Len(get_active_ads(repo)) :
          calculate_relevance(get_active_ads(repo)[i], call.analysis) \in 0..Unit

\* a lookup that scored an ad matched by more than one keyword, one of them
\* contained in the query (the x1.5 and the x1.2 boosts both apply), with a
\* total_score of 1
C5_Witness ==
    \E i \in 1..Len(lookup.scored) :
        /\ Len(lookup.scored[i].matched_keywords) > 1
        /\ \E k \in 1..Len(lookup.scored[i].matched_keywords) :
              Contains(Lower(lookup.query), Lower(lookup.scored[i].matched_keywords[k]))
        /\ lookup.scored[i].total_score = Unit

-----------------------------------------------------------------------------
(* Properties of ConfigDrivenAdManager.get_relevant_ad *)

\* C9: get_relevant_ad returns None when no scored ad has a total_score at or
\* above default_relevance_threshold; an ad it returns is a scored ad whose
\* total_score is at or above the threshold, and no scored ad has a strictly
\* higher total_score.
C9_BestAboveThreshold ==
    /\ (\A i \in 1..Len(lookup.scored) :
           lookup.scored[i].total_score < default_relevance_threshold)
       => lookup.result = <<>>
    /\ lookup.result # <<>> =>
          /\ lookup.result[1].match_factors.total_score >= default_relevance_threshold
          /\ \E i \in 1..Len(lookup.scored) :
                /\ lookup.scored[i].ad_id = lookup.result[1].ad_id
                /\ lookup.scored[i].total_score
                     = lookup.result[1].match_factors.total_score
          /\ \A i \in 1..Len(lookup.scored) :
                lookup.scored[i].total_score
                  <= lookup.result[1].match_factors.total_score

\* a lookup that returned an ad that was not the first one scored, while
\* another scored ad was below the threshold
C9_Witness ==
    /\ lookup.result # <<>>
    /\ Len(lookup.scored) > 1
    /\ lookup.scored[1].ad_id # lookup.result[1].ad_id
    /\ lookup.scored[1].total_score < lookup.result[1].match_factors.total_score
    /\ \E i \in 1..Len(lookup.scored) :
          lookup.scored[i].total_score < default_relevance_threshold


\* C19: the list of matched terms _find_keyword_matches returns for an ad
\* holds each term at most once.
C19_MatchedTermsDistinct ==
    \A m \in 1..Len(lookup.keyword_matches) :
        \A i, j \in 1..Len(lookup.keyword_matches[m].terms) :
            lookup.keyword_matches[m].terms[i] = lookup.keyword_matches[m].terms[j] => i = j

\* a word of the query is one of the words of the multi-word keyword, and the
\* keyword is not contained in the query
IsComponentMatch(keyword, query) ==
    /\ Contains(keyword, " ")
    /\ ~Contains(Lower(query), keyword)
    /\ \E w \in Range(FindWords(Lower(query))) : w \in Range(Split(keyword))

\* C20: when a word of the query is a component word of a multi-word keyword
\* that the query does not contain, _find_keyword_matches reports the keyword
\* for every ad indexed under it.
C20_ComponentMatchForEveryAd ==
    lookup.query # "" =>
        \A k \in 1..Len(keyword_index) :
            IsComponentMatch(keyword_index[k].key, lookup.query) =>
                \A ad_id \in Range(keyword_index[k].ad_ids) :
                    keyword_index[k].key \in Range(MatchTerms(lookup.keyword_matches, ad_id))

\* the category score of an ad for a query: the categories of the ad that are
\* words of the query, over the categories of the ad
category_score_for(ad, query) ==
    CategoryScored(ad, MatchTerms(find_category_matches(category_index, Lower(query)),
                                  ad.ad_id), 0).category_score

\* (keyword*w.keyword + category*w.category + intent*w.intent) * boost, capped
weighted_total(entry, ad, category_score) ==
    CapScore(Frac(Frac(entry.keyword_score, ad.match_weights.keyword_match, 100)
                  + Frac(category_score, ad.match_weights.category_match, 100)
                  + Frac(entry.intent_score, ad.match_weights.intent_match, 100),
                  IF Len(entry.matched_keywords) > 1 THEN 6 ELSE 5, 5))

\* C21: the total_score of a keyword-matched ad is its keyword, category and
\* intent scores weighted by its match_weights, times 1.2 when more than one
\* keyword matched, capped at 1; the category score is the share of the ad's
\* categories matched by the query.
C21_TotalIsWeightedSum ==
    \A i \in 1..Len(lookup.scored) :
        Len(lookup.scored[i].matched_keywords) > 0 =>
            lookup.scored[i].total_score
               = weighted_total(lookup.scored[i],
                                AdsWithId(ads, lookup.scored[i].ad_id)[1],
                                category_score_for(AdsWithId(ads, lookup.scored[i].ad_id)[1],
                                                   lookup.query))

\* the ads that match the query of the last lookup by category and not by keyword
CategoryOnly ==
    MatchIds(find_category_matches(category_index, Lower(lookup.query)))
        \ MatchIds(lookup.keyword_matches)

\* C29: get_relevant_ad looks for category matches only when the query has no
\* keyword match; when it has one, an ad that matches the query by category
\* only is neither scored nor returned.
C29_CategoryOnlyWithoutKeywords ==
    /\ lookup.category_matches # <<>> => lookup.keyword_matches = <<>>
    /\ lookup.keyword_matches # <<>> =>
          /\ CategoryOnly \cap MatchIds(lookup.scored) = {}
          /\ CategoryOnly \cap MatchIds(lookup.result) = {}

\* a lookup with a keyword match whose scores are all below the threshold, so
\* that None is returned, while another ad matches the query by category
C29_Witness ==
    /\ lookup.keyword_matches # <<>>
    /\ CategoryOnly # {}
    /\ lookup.scored # <<>>
    /\ lookup.result = <<>>
-----------------------------------------------------------------------------
(* Properties of AdDeliveryManager.get_relevant_ad *)

\* C6: the match_factors.total_score that get_relevant_ad computes for each ad
\* (in thousandths), and the one attached to the ad it returns, lies in [0,1].
C6_TotalScoreInUnitInterval ==
    /\ \A i \in 1..Len(request.totals) : request.totals[i].total_score \in 0..1000
    /\ \A i \in 1..Len(request.result) :
          "match_factors" \in DOMAIN request.result[i]
          => request.result[i].match_factors.total_score \in 0..1000

\* C8: a get_relevant_ad call with a non-empty query on a non-empty inventory
\* in which no ad reaches the threshold returns None and does not raise.
C8_NoneWithoutRaising ==
    (request.scored /\ request.highest_score < Frac(Unit, DeliveryThreshold, 100))
    => request.outcome = "none"


\* C15: the inventories are read-only to get_relevant_ad: a call of
\* AdDeliveryManager.get_relevant_ad or ConfigDrivenAdManager.get_relevant_ad
\* leaves every stored ad record with the fields and values it had.
C15_InventoryReadOnly ==
    [][(nrequests' # nrequests \/ nqueries' # nqueries) =>
            (delivery_ads' = delivery_ads /\ ads' = ads)]_vars


-----------------------------------------------------------------------------
(* Properties of AdMatcher.match_ads *)

RetIds(cl) == {cl.ret[i].id : i \in 1..Len(cl.ret)}

\* C1: once an ad's shown count in a conversation has reached 3, no later
\* match_ads call of that conversation returns it and its count stays 3; a
\* count never exceeds 3 and never decreases.
C1_CapIsTerminal ==
    [][ \A c \in DOMAIN conversation_ad_history', a \in AdIds :
          LET before == ShownCount(conversation_ad_history, c, a)
              after == ShownCount(conversation_ad_history', c, a)
          IN  /\ after <= 3
              /\ after >= before
              /\ before = 3 => /\ after = 3
                               /\ call'.conv_id = c => a \notin RetIds(call') ]_vars

\* a call in which an ad that had already been shown 3 times met the threshold
\* again and was not returned
C1_Witness ==
    \E a \in call.qualified :
        /\ ShownCount(call.before, call.conv_id, a) = 3
        /\ a \notin RetIds(call)

\* C2: an ad returned by a match_ads call of a conversation is not the
\* top-ranked ad returned by the next match_ads call of that conversation.
C2_NoConsecutiveRepeat ==
    [][ call'.ret # <<>> => call'.ret[1].id \notin returned[call'.session] ]_vars

\* C3: a match_ads call raises an ad's shown count by exactly 1 if it returns
\* the ad and leaves it unchanged otherwise, and when it rewrites last_shown_ad
\* it names an ad it returns.
C3_CountOnlyReturned ==
    [][ /\ \A c \in DOMAIN conversation_ad_history', a \in AdIds :
             ShownCount(conversation_ad_history', c, a)
               = ShownCount(conversation_ad_history, c, a)
                 + (IF c = call'.conv_id /\ a \in RetIds(call') THEN 1 ELSE 0)
        /\ LastShown(conversation_ad_history', call'.conv_id)
             # LastShown(conversation_ad_history, call'.conv_id)
           => LastShown(conversation_ad_history', call'.conv_id) \in RetIds(call') ]_vars

\* a negative keyword of the ad is contained in a lower-cased token or entity
NegativeKeywordHit(ad, analysis) ==
    \E k \in 1..Len(NegativeKeywords(ad)) :
        \E term \in analysis.tokens \cup Range(analysis.entities) :
            Contains(Lower(term), NegativeKeywords(ad)[k])

\* C4: an active ad one of whose negative keywords occurs in the analysed
\* tokens or entities is never in the list match_ads returns, whatever the
\* configured relevance_threshold.
C4_NegativeKeywordVeto ==
    \A i \in 1..Len(repo) :
        ("id" \in DOMAIN repo[i] /\ repo[i].status = "active"
            /\ NegativeKeywordHit(repo[i], call.analysis))
        => repo[i].id \notin RetIds(call)

\* C7: a match_ads call of one conversation changes neither the shown counts
\* nor the last-shown ad that AdMatcher keeps for another conversation (one
\* with a different message history).
C7_PerConversationRecords ==
    [][ \A t \in Sessions \ {call'.session} :
          LET c == get_conversation_id(sessions[t])
          IN  (sessions[t] # sessions'[call'.session] /\ c \in DOMAIN conversation_ad_history)
              => conversation_ad_history'[c] = conversation_ad_history[c] ]_vars

\* C10: match_ads returns at most max_ads_per_request entries, in
\* non-increasing order of relevance_score, each at or above the threshold,
\* and no candidate that passed threshold and frequency capping but is not
\* returned scores higher than a returned one.
C10_TopNSorted ==
    /\ Len(call.ret) <= max_ads_per_request
    /\ \A i \in 1..Len(call.ret) : call.ret[i].relevance_score >= relevance_threshold
    /\ \A i, j \in 1..Len(call.ret) :
          i < j => call.ret[i].relevance_score >= call.ret[j].relevance_score
    /\ \A p \in 1..Len(call.passed) :
          call.passed[p].id \notin RetIds(call)
          => \A i \in 1..Len(call.ret) :
                call.passed[p].relevance_score <= call.ret[i].relevance_score

\* a call in which a lower-scoring candidate came first in the inventory and
\* was cut off by max_ads_per_request
C10_Witness ==
    /\ Len(call.passed) > Len(call.ret)
    /\ Len(call.ret) >= 1
    /\ call.passed[1].relevance_score < call.ret[1].relevance_score
    /\ call.passed[1].id \notin RetIds(call)


\* the ads counted so far in a conversation
ShownAds(hist, cid) == IF cid \in DOMAIN hist THEN DOMAIN hist[cid].shown_ads ELSE {}

\* C28: in a conversation in which one ad only has ever met the threshold,
\* match_ads returns the ad on the first call in which it does and on no
\* later call: its shown count is 1 from then on and last_shown_ad names it.
C28_SoleAdShownOnce ==
    [][ \A a \in AdIds :
          (/\ call'.qualified = {a}
           /\ ~call'.raised
           /\ ShownAds(conversation_ad_history, call'.conv_id) \subseteq {a})
          => /\ ShownCount(conversation_ad_history, call'.conv_id, a) = 0
                  => a \in RetIds(call')
             /\ ShownCount(conversation_ad_history, call'.conv_id, a) # 0
                  => a \notin RetIds(call')
             /\ ShownCount(conversation_ad_history', call'.conv_id, a) = 1
             /\ conversation_ad_history'[call'.conv_id].last_shown_ad = a ]_vars

\* a conversation in which one ad only has been counted, and whose last call
\* found that ad, the only one to meet the threshold, and did not return it
C28_Witness ==
    \E a \in AdIds :
        /\ call.qualified = {a}
        /\ ~call.raised
        /\ ShownAds(call.before, call.conv_id) = {a}
        /\ ShownCount(conversation_ad_history, call.conv_id, a) = 1
        /\ call.ret = <<>>
-----------------------------------------------------------------------------
(* Properties of reload_config and the loading of the companies *)

\* the inventory and its indexes are those of one completely loaded directory
CompleteInventoryAndIndex ==
    /\ \E directory \in Directories : ads = load_company_configs(<<>>, directory, 1)
    /\ keyword_index = build_indexes(ads).keyword_index
    /\ category_index = build_indexes(ads).category_index

\* C11: a get_relevant_ad lookup that runs while reload_config runs reads a
\* completely loaded inventory together with the complete index built from
\* it, never an emptied or partly loaded inventory or a stale or partly
\* built index.
C11_LookupSeesCompleteInventory ==
    [][nqueries' # nqueries => CompleteInventoryAndIndex]_vars

\* C12: two concurrent _update_conversation_context calls for one
\* conversation lose no update: when both have returned, last_queries and
\* the topic, intent and preference scores of the conversation are those that
\* one of the two serial orders of the calls leaves.
C12_NoLostUpdate ==
    (\A t \in Updaters : updaters[t].pc = "done") =>
        \E order \in {<<"t1", "t2">>, <<"t2", "t1">>} :
            LET serial == serial_updates(order[1], order[2])[UpdatedConversation]
                final == conversation_contexts[UpdatedConversation]
            IN  /\ final.last_queries = serial.last_queries
                /\ final.topics = serial.topics
                /\ final.intents = serial.intents
                /\ final.preferences = serial.preferences


\* the ad_ids of the records of a directory that have an ad_id
WellFormedAdIds(directory) ==
    { directory[c].campaigns[f].ads[k].ad_id :
        <<c, f, k>> \in { t \in (1..Len(directory)) \X (1..3) \X (1..3) :
                            /\ t[2] <= Len(directory[t[1]].campaigns)
                            /\ t[3] <= Len(directory[t[1]].campaigns[t[2]].ads)
                            /\ "ad_id" \in DOMAIN directory[t[1]].campaigns[t[2]].ads[t[3]] } }

\* C14: an ad record without ad_id is skipped on its own: once the companies
\* are loaded and indexed, every record of the directory that has an ad_id,
\* the ones after the bad record in its campaign file and in later campaign
\* files of its company included, is in the inventory.
C14_MalformedAdSkippedAlone ==
    reload.pc = "idle" =>
        WellFormedAdIds(companies_dir) \subseteq { ads[i].ad_id : i \in 1..Len(ads) }

\* C18: _build_indexes called again on an unchanged inventory (the indexes
\* are those of an earlier _build_indexes call on it) leaves the keyword and
\* category indexes, and so the results of _find_keyword_matches and
\* _find_category_matches for every query, as they were.
C18_RebuildIsIdempotent ==
    [][nbuilds' # nbuilds =>
          /\ ads' = ads
          /\ keyword_index' = keyword_index
          /\ category_index' = category_index
          /\ \A query \in Queries :
                /\ find_keyword_matches(keyword_index', query)
                      = find_keyword_matches(keyword_index, query)
                /\ find_category_matches(category_index', query)
                      = find_category_matches(category_index, query)]_vars

\* _build_indexes has been called twice more on a loaded inventory whose
\* index lists an ad under a keyword twice
C18_Witness ==
    /\ nbuilds >= 2
    /\ reload.pc = "idle"
    /\ \E k \in 1..Len(keyword_index) :
          \E i, j \in 1..Len(keyword_index[k].ad_ids) :
              i # j /\ keyword_index[k].ad_ids[i] = keyword_index[k].ad_ids[j]
-----------------------------------------------------------------------------
(* Properties of QueryAnalyzer *)

AnnotationKeys ==
    {"tokens", "entities", "topics", "categories", "intent", "sentiment",
     "commercial_intent"}

\* C13: whatever the external extraction call does (raise, answer with a
\* text that is not JSON, with JSON that lacks keys, with JSON whose values
\* have the wrong type), analyze_conversation raises nothing and returns an
\* annotation with tokens, entities, topics, categories, intent, sentiment
\* and commercial_intent.
C13_AnnotationForEveryOutcome ==
    analyzed.extracted =>
        /\ ~analyzed.result.raised
        /\ AnnotationKeys \subseteq DOMAIN analyzed.result.value


-----------------------------------------------------------------------------
(* Properties of RankingEngine.rank_ads *)

\* spent_today >= daily_budget, or daily_budget <= 0
BudgetExhausted(ad) ==
    \/ GetOr(ad, "daily_budget", 0) <= 0
    \/ GetOr(ad, "spent_today", 0) >= GetOr(ad, "daily_budget", 0)

\* C16: an ad whose daily budget is exhausted gets budget factor 0 and is not
\* in the list rank_ads returns.
C16_ExhaustedBudgetExcluded ==
    \A i \in 1..Len(ranking.ranked_ads) : ~BudgetExhausted(ranking.ranked_ads[i].ad)

\* the orders in which n entries can be returned
Orders(n) == { p \in [1..n -> 1..n] : \A i, j \in 1..n : p[i] = p[j] => i = j }

\* C17: rank_ads returns every matched ad exactly once, by non-increasing
\* final_score, and matched ads of equal final_score in their input order.
C17_RankedIsStablePermutation ==
    ranking.called =>
        /\ Len(ranking.ranked_ads) = Len(ranking.matched_ads)
        /\ \E p \in Orders(Len(ranking.matched_ads)) :
              \A i \in 1..Len(ranking.ranked_ads) :
                 /\ ranking.ranked_ads[i] =
                       ranked_entry(ranking.matched_ads[p[i]], ranking.user_context,
                                    ranking.jitters[p[i]])
                 /\ \A j \in (i + 1)..Len(ranking.ranked_ads) :
                       /\ ranking.ranked_ads[i].final_score >= ranking.ranked_ads[j].final_score
                       /\ ranking.ranked_ads[i].final_score = ranking.ranked_ads[j].final_score
                             => p[i] < p[j]

\* rank_ads has moved a matched ad in front of an earlier one of lower
\* final_score and has returned two different ads of equal final_score
C17_Witness ==
    /\ ranking.called
    /\ Len(ranking.ranked_ads) = 3
    /\ ranking.ranked_ads[1].ad # ranking.matched_ads[1].ad
    /\ \E i \in 1..2 :
          /\ ranking.ranked_ads[i].final_score = ranking.ranked_ads[i + 1].final_score
          /\ ranking.ranked_ads[i].ad # ranking.ranked_ads[i + 1].ad

\* the combined score of a returned entry
CombinedOf(entry) == combined_score(entry.ranking_factors)

\* C26: the final_score of every candidate lies between its combined score
\* and 1.01 times its combined score, so a candidate whose combined score is
\* more than 1.01 times that of another is placed before it whatever the
\* jitter values.
C26_JitterBelowOnePercent ==
    /\ \A i \in 1..Len(ranking.ranked_ads) :
          /\ ranking.ranked_ads[i].final_score >= CombinedOf(ranking.ranked_ads[i])
          /\ ranking.ranked_ads[i].final_score * 100
                <= CombinedOf(ranking.ranked_ads[i]) * 101
    /\ \A i, j \in 1..Len(ranking.ranked_ads) :
          CombinedOf(ranking.ranked_ads[i]) * 100 > CombinedOf(ranking.ranked_ads[j]) * 101
             => i < j

\* rank_ads has drawn the largest jitter for the first matched ad and none for
\* the second, and has still returned the second, whose combined score is more
\* than 1.01 times higher, in front of the first
C26_Witness ==
    /\ ranking.called
    /\ Len(ranking.ranked_ads) = 3
    /\ ranking.jitters[1] = 100
    /\ ranking.jitters[2] = 0
    /\ ranking.ranked_ads[3].final_score > CombinedOf(ranking.ranked_ads[3])
    /\ ranking.ranked_ads[3].ad = ranking.matched_ads[1].ad
    /\ ranking.ranked_ads[3].relevance_score = ranking.matched_ads[1].relevance_score
    /\ ranking.ranked_ads[1].final_score = CombinedOf(ranking.ranked_ads[1])
    /\ CombinedOf(ranking.ranked_ads[1]) * 100 > CombinedOf(ranking.ranked_ads[3]) * 101

\* C27: for ads whose bid_amount, ctr, daily_budget and spent_today are not
\* negative and for every user context, the bid, CTR, budget and targeting
\* factors rank_ads computes lie in [0,1].
C27_FactorsInUnitInterval ==
    \A i \in 1..Len(ranking.ranked_ads) :
        \A f \in {"bid", "ctr", "budget", "targeting"} :
            ranking.ranked_ads[i].ranking_factors[f] \in 0..Unit

\* rank_ads has been called with a user context for an ad that has spent more
\* than its daily budget (budget factor 0) and has returned an ad whose
\* targeting factor comes from its interests and demographics
C27_Witness ==
    /\ ranking.called
    /\ ranking.user_context # <<>>
    /\ \E i \in 1..Len(ranking.ranked_ads) :
          /\ GetOr(ranking.ranked_ads[i].ad, "spent_today", 0)
                > GetOr(ranking.ranked_ads[i].ad, "daily_budget", 0)
          /\ ranking.ranked_ads[i].ranking_factors.budget = 0
    /\ \E i \in 1..Len(ranking.ranked_ads) :
          /\ ranking.ranked_ads[i].ranking_factors.targeting = 3 * (Unit \div 4)
          /\ ranking.ranked_ads[i].ranking_factors.budget \in 1..(Unit - 1)

-----------------------------------------------------------------------------
(* Properties of ConfigDrivenAdManager._update_conversation_context *)

\* the conversations a step has updated
Updated(contexts, contexts_) ==
    {c \in DOMAIN contexts \cap DOMAIN contexts_ : contexts_[c] # contexts[c]}

\* C22: one _update_conversation_context call, the folding of the history
\* included, leaves every stored topic score at 0.8 times its value or more
\* and every stored preference score at 0.9 times its value or more.
C22_DecayIsBounded ==
    [][\A c \in DOMAIN conversation_contexts \cap DOMAIN conversation_contexts' :
          /\ \A k \in DOMAIN conversation_contexts[c].topics :
                conversation_contexts'[c].topics[k] * 5
                   >= conversation_contexts[c].topics[k] * 4
          /\ \A k \in DOMAIN conversation_contexts[c].preferences :
                conversation_contexts'[c].preferences[k] * 10
                   >= conversation_contexts[c].preferences[k] * 9]_vars

\* C23: every _update_conversation_context call multiplies by 0.8 a stored
\* topic or intent score that the current query does not show, and by 0.9 a
\* stored preference the query does not show.
C23_UnseenSignalDecays ==
    [][\A c \in Updated(conversation_contexts, conversation_contexts') :
          /\ \A k \in DOMAIN conversation_contexts[c].intents \ DOMAIN Intents(last_update'.query) :
                conversation_contexts'[c].intents[k] * 5
                   <= conversation_contexts[c].intents[k] * 4
          /\ \A k \in DOMAIN conversation_contexts[c].topics \ DOMAIN Topics(last_update'.query) :
                conversation_contexts'[c].topics[k] * 5
                   <= conversation_contexts[c].topics[k] * 4
          /\ \A k \in DOMAIN conversation_contexts[c].preferences
                         \ DOMAIN Preferences(last_update'.query) :
                conversation_contexts'[c].preferences[k] * 10
                   <= conversation_contexts[c].preferences[k] * 9]_vars

\* the number of queries of a conversation in which a product was extracted
MentionsOf(messages, product) ==
    Cardinality({m \in 1..Len(messages) :
                    product \in Range(extract_products(keyword_index, ads,
                                                       messages[m].content))})

\* C24: discussed_products holds at most one record per product name, and
\* the mention_count of a record is the number of queries of the conversation
\* in which the product was extracted.
C24_OneRecordPerProduct ==
    \A c \in DOMAIN conversation_contexts :
        \A i \in 1..Len(conversation_contexts[c].discussed_products) :
            /\ \A j \in 1..Len(conversation_contexts[c].discussed_products) :
                  conversation_contexts[c].discussed_products[i].name
                     = conversation_contexts[c].discussed_products[j].name => i = j
            /\ conversation_contexts[c].discussed_products[i].mention_count
                  = MentionsOf(chats[c], conversation_contexts[c].discussed_products[i].name)

\* the queries of a conversation, in arrival order
QueriesOf(messages) == [m \in 1..Len(messages) |-> messages[m].content]

\* the topics of the queries in which a topic was detected, in arrival order
RECURSIVE TopicsSeen(_, _)
TopicsSeen(queries, k) ==
    IF k > Len(queries) THEN <<>>
    ELSE (IF DOMAIN Topics(queries[k]) # {} THEN <<Topics(queries[k])>> ELSE <<>>)
         \o TopicsSeen(queries, k + 1)

\* C25: after n _update_conversation_context calls on a conversation,
\* last_queries holds the min(n,5) most recent queries in arrival order and
\* topic_history holds at most 10 entries, the most recent ones in order.
C25_RecentQueriesKept ==
    \A c \in DOMAIN conversation_contexts :
        /\ conversation_contexts[c].last_queries = LastN(QueriesOf(chats[c]), 5)
        /\ Len(conversation_contexts[c].last_queries) = Min(Len(chats[c]), 5)
        /\ Len(conversation_contexts[c].topic_history) <= 10
        /\ conversation_contexts[c].topic_history
              = LastN(TopicsSeen(QueriesOf(chats[c]), 1), 10)

\* a conversation of more than 10 queries with a topic, whose last_queries
\* and topic_history are full and have dropped their oldest entry
C25_Witness ==
    /\ ContextConversation \in DOMAIN conversation_contexts
    /\ Len(TopicsSeen(QueriesOf(chats[ContextConversation]), 1)) > 10
    /\ Len(conversation_contexts[ContextConversation].topic_history) = 10
    /\ Len(conversation_contexts[ContextConversation].last_queries) = 5
    /\ conversation_contexts[ContextConversation].last_queries[1]
          # chats[ContextConversation][1].content
    /\ conversation_contexts[ContextConversation].topic_history[1]
          # TopicsSeen(QueriesOf(chats[ContextConversation]), 1)[1]
-----------------------------------------------------------------------------
(* Properties of the MetricsCollector singleton *)

\* C30: whatever the interleaving of the threads that call MetricsCollector(),
\* each part of the initialisation body (the _needs_init mark, the registry,
\* the Prometheus server, the tables, the system-metrics thread) runs at most
\* once.
C30_InitialisedOnce ==
    \A part \in DOMAIN initialisations : initialisations[part] <= 1

=============================================================================
